---- MODULE Spec2Model ----
(***************************************************************************)
(* A model of the access-control engine of lib/acl.ts: the policy graph    *)
(* kept in a set-valued key/value backend (users, roles, parents,          *)
(* resources, meta and one allows bucket per resource), the mutations that *)
(* write it through backend transactions, and the permission check that    *)
(* walks the role hierarchy upward.                                        *)
(*                                                                         *)
(* Arrays are modelled as finite sets (order and repetition dropped); a    *)
(* "string | array | undefined" parameter is a record that keeps which of  *)
(* the three shapes the caller passed, because the code branches on it.    *)
(***************************************************************************)
EXTENDS Integers, FiniteSets, Sequences, TLC

VARIABLES db, chk, reads, nops, cl, ex, gr, rv, mw, rr, lin, removed

vars == <<db, chk, reads, nops, cl, ex, gr, rv, mw, rr, lin, removed>>

(***************************************************************************)
(* Universes of identifiers the operations are called with.                *)
(***************************************************************************)
Users == {"u1", "u2"}

Roles == {"admin", "user", "guest"}

Resources == {"blogs", "docs"}

Perms == {"get", "put", "*"}

\* Completed mutating calls explored from the empty store, under Spec and
\* under SpecCheck.
MaxOps == 3

MaxCheckOps == 4

\* Completed addUserRoles and removeUserRoles calls explored under SpecUsers.
MaxUserOps == 5

\* Completed mutating calls explored under SpecClosure, and the nesting of
\* _allRoles calls (each waiting for the closure of its parents) up to
\* which a closure that does not end is followed.
MaxClosureOps == 4

MaxDepth == 4

\* Batches submitted by compact-form allow calls explored under SpecAllowEx.
MaxExOps == 4

\* Batches ended under SpecRace before the last grant and revoke start.
MaxRaceOps == 3

\* Calls explored under SpecBatch.
MaxBatchOps == 3

\* Completed mutating calls explored under SpecMiddleware.
MaxMwOps == 3

\* Calls completed in SpecRoleRace.
MaxRoleRaceOps == 4

\* Mutating calls completed in SpecLinear.
MaxLinOps == 5

\* Mutating calls completed in SpecRemoved.
MaxRemovedOps == 4

(***************************************************************************)
(* Polymorphic parameters: a single string, an array, or undefined.        *)
(***************************************************************************)
Str(v) == [kind |-> "string", vals |-> {v}]

Arr(S) == [kind |-> "array", vals |-> S]

Undefined == [kind |-> "undefined", vals |-> {}]

\* Array.isArray(x)
isArray(x) == x.kind = "array"

\* JavaScript truthiness of such a parameter: undefined is falsy, a
\* non-empty string and every array (the empty one too) are truthy.
truthy(x) == x.kind # "undefined"

\* The string a "string" parameter holds.
strOf(x) == CHOOSE v \in x.vals : TRUE

makeArray(arr) == IF isArray(arr) THEN arr ELSE Arr(arr.vals)

(***************************************************************************)
(* Bucket names.  A name is the sequence of the text fragments that are    *)
(* concatenated to form it.                                                *)
(***************************************************************************)
buckets ==
    [meta |-> <<"meta">>, parents |-> <<"parents">>,
     permissions |-> <<"permissions">>, resources |-> <<"resources">>,
     roles |-> <<"roles">>, users |-> <<"users">>]

allowsBucket(role) == <<"allows_", role>>

keyFromAllowsBucket(str) ==
    IF Len(str) > 1 /\ Head(str) = "allows_" THEN Tail(str)[1] ELSE str[1]

AllBuckets ==
    {buckets.meta, buckets.users, buckets.roles, buckets.parents,
     buckets.resources} \cup {allowsBucket(r) : r \in Resources}

KeysOf(bucket) ==
    IF bucket = buckets.meta THEN {"users", "roles"}
    ELSE IF bucket = buckets.users THEN Users
    ELSE Roles

(***************************************************************************)
(* The backend contract: a store of sets, a key that was never written or  *)
(* was deleted reads as the empty set, and a transaction is the list of    *)
(* queued mutations that end() applies in order.                           *)
(***************************************************************************)
EmptyStore == [b \in AllBuckets |-> [k \in KeysOf(b) |-> {}]]

backend_begin == <<>>

backend_add(transaction, bucket, key, values) ==
    Append(transaction,
           [op |-> "add", bucket |-> bucket, keys |-> {key}, values |-> values.vals])

backend_remove(transaction, bucket, key, values) ==
    Append(transaction,
           [op |-> "remove", bucket |-> bucket, keys |-> {key}, values |-> values.vals])

backend_del(transaction, bucket, keys) ==
    Append(transaction,
           [op |-> "del", bucket |-> bucket, keys |-> keys.vals, values |-> {}])

applyOp(d, o) ==
    [d EXCEPT ![o.bucket] =
        [k \in DOMAIN @ |->
            IF k \notin o.keys THEN @[k]
            ELSE IF o.op = "add" THEN @[k] \cup o.values
            ELSE IF o.op = "remove" THEN @[k] \ o.values
            ELSE {}]]

RECURSIVE backend_end(_, _)
backend_end(d, transaction) ==
    IF transaction = <<>> THEN d
    ELSE backend_end(applyOp(d, Head(transaction)), Tail(transaction))

backend_get(d, bucket, key) == d[bucket][key]

backend_union(d, bucket, keys) == UNION {d[bucket][k] : k \in keys}

\* array.forEach(f) queuing one mutation per element: the queued mutations
\* of one forEach touch different keys, so their order is immaterial.
RECURSIVE forEach(_)
forEach(ops) ==
    IF ops = {} THEN <<>>
    ELSE LET o == CHOOSE x \in ops : TRUE IN <<o>> \o forEach(ops \ {o})

(***************************************************************************)
(* Mutations, each a function from the store before to the store after.    *)
(***************************************************************************)
addUserRoles(d, userId, roles) ==
    LET t1 == backend_add(backend_begin, buckets.meta, "users", Str(userId))
        t2 == backend_add(t1, buckets.users, userId, roles)
        t3 == IF isArray(roles)
              THEN t2 \o forEach({[op |-> "add", bucket |-> buckets.roles,
                                   keys |-> {role}, values |-> {userId}] :
                                      role \in roles.vals})
              ELSE backend_add(t2, buckets.roles, strOf(roles), Str(userId))
    IN  backend_end(d, t3)

\* removeUserRoles that does not touch the reverse mapping.
removeUserRoles_usersOnly(d, userId, roles) ==
    backend_end(d, backend_remove(backend_begin, buckets.users, userId, roles))

removeUserRoles(d, userId, roles) ==
    LET t1 == backend_remove(backend_begin, buckets.users, userId, roles)
        t2 == IF isArray(roles)
              THEN t1 \o forEach({[op |-> "remove", bucket |-> buckets.roles,
                                   keys |-> {role}, values |-> {userId}] :
                                      role \in roles.vals})
              ELSE backend_remove(t1, buckets.roles, strOf(roles), Str(userId))
    IN  backend_end(d, t2)

userRoles(d, userId) == backend_get(d, buckets.users, userId)

roleUsers(d, roleName) == backend_get(d, buckets.roles, roleName)

hasRole(d, userId, rolename) == rolename \in userRoles(d, userId)

addRoleParents(d, role, parents) ==
    LET t1 == backend_add(backend_begin, buckets.meta, "roles", Str(role))
        t2 == backend_add(t1, buckets.parents, role, parents)
    IN  backend_end(d, t2)

\* removeRoleParents for which a call without parents is a no-op.
removeRoleParents_omittedIsNoop(d, role, parents) ==
    LET t1 == IF truthy(parents)
              THEN backend_remove(backend_begin, buckets.parents, role, parents)
              ELSE backend_begin
    IN  backend_end(d, t1)

removeRoleParents(d, role, parents) ==
    LET t1 == IF truthy(parents)
              THEN backend_remove(backend_begin, buckets.parents, role, parents)
              ELSE backend_del(backend_begin, buckets.parents, Str(role))
    IN  backend_end(d, t1)

\* removeRole that clears the index and the metadata but not the allows
\* sets of the role.
removeRole_keepAllows(d, role) ==
    LET t2 == backend_del(backend_begin, buckets.resources, Str(role))
        t3 == backend_del(t2, buckets.parents, Str(role))
        t4 == backend_del(t3, buckets.roles, Str(role))
        t5 == backend_remove(t4, buckets.meta, "roles", Str(role))
    IN  backend_end(d, t5)

\* removeRole that deletes the allows sets of the role and leaves its
\* resources index.
removeRole_keepIndex(d, role) ==
    LET resources == backend_get(d, buckets.resources, role)
        t1 == forEach({[op |-> "del", bucket |-> allowsBucket(resource),
                        keys |-> {role}, values |-> {}] :
                           resource \in resources})
        t3 == backend_del(t1, buckets.parents, Str(role))
        t4 == backend_del(t3, buckets.roles, Str(role))
        t5 == backend_remove(t4, buckets.meta, "roles", Str(role))
    IN  backend_end(d, t5)

\* removeRole that also takes the role away from the users who hold it.
removeRole_cleanUsers(d, role) ==
    LET resources == backend_get(d, buckets.resources, role)
        t1 == forEach({[op |-> "del", bucket |-> allowsBucket(resource),
                        keys |-> {role}, values |-> {}] :
                           resource \in resources})
        t2 == backend_del(t1, buckets.resources, Str(role))
        t3 == backend_del(t2, buckets.parents, Str(role))
        t4 == t3 \o forEach({[op |-> "remove", bucket |-> buckets.users,
                              keys |-> {userId}, values |-> {role}] :
                                 userId \in backend_get(d, buckets.roles, role)})
        t5 == backend_del(t4, buckets.roles, Str(role))
        t6 == backend_remove(t5, buckets.meta, "roles", Str(role))
    IN  backend_end(d, t6)

\* removeRole that leaves the parents of the role in place.
removeRole_keepParents(d, role) ==
    LET resources == backend_get(d, buckets.resources, role)
        t1 == forEach({[op |-> "del", bucket |-> allowsBucket(resource),
                        keys |-> {role}, values |-> {}] :
                           resource \in resources})
        t2 == backend_del(t1, buckets.resources, Str(role))
        t4 == backend_del(t2, buckets.roles, Str(role))
        t5 == backend_remove(t4, buckets.meta, "roles", Str(role))
    IN  backend_end(d, t5)

\* The batch removeRole queues once its read of resources[role] is answered.
removeRoleTransaction(role, resources) ==
    LET t1 == forEach({[op |-> "del", bucket |-> allowsBucket(resource),
                        keys |-> {role}, values |-> {}] :
                           resource \in resources})
        t2 == backend_del(t1, buckets.resources, Str(role))
        t3 == backend_del(t2, buckets.parents, Str(role))
        t4 == backend_del(t3, buckets.roles, Str(role))
    IN  backend_remove(t4, buckets.meta, "roles", Str(role))

removeRole(d, role) ==
    LET resources == backend_get(d, buckets.resources, role)
    IN  backend_end(d, removeRoleTransaction(role, resources))

\* removeResource that deletes the allows entries and leaves the index.
removeResource_allowsOnly(d, resource) ==
    LET roles == backend_get(d, buckets.meta, "roles")
        t1 == backend_del(backend_begin, allowsBucket(resource), Arr(roles))
    IN  backend_end(d, t1)

removeResource(d, resource) ==
    LET roles == backend_get(d, buckets.meta, "roles")
        t1 == backend_del(backend_begin, allowsBucket(resource), Arr(roles))
        t2 == t1 \o forEach({[op |-> "remove", bucket |-> buckets.resources,
                              keys |-> {role}, values |-> {resource}] :
                                 role \in roles})
    IN  backend_end(d, t2)

\* allow that takes a permission the role already holds for a request to
\* switch it off.
allow_toggle(d, roles0, resources0, permissions) ==
    LET roles == makeArray(roles0)
        resources == makeArray(resources0)
        t1 == backend_add(backend_begin, buckets.meta, "roles", roles)
        t2 == t1 \o forEach({[op |-> "add", bucket |-> allowsBucket(resource),
                              keys |-> {role},
                              values |-> permissions.vals \
                                  backend_get(d, allowsBucket(resource), role)] :
                                 resource \in resources.vals, role \in roles.vals})
                \o forEach({[op |-> "remove", bucket |-> allowsBucket(resource),
                              keys |-> {role},
                              values |-> permissions.vals \cap
                                  backend_get(d, allowsBucket(resource), role)] :
                                 resource \in resources.vals, role \in roles.vals})
        t3 == t2 \o forEach({[op |-> "add", bucket |-> buckets.resources,
                              keys |-> {role}, values |-> resources.vals] :
                                 role \in roles.vals})
    IN  backend_end(d, t3)

allow(d, roles0, resources0, permissions) ==
    LET roles == makeArray(roles0)
        resources == makeArray(resources0)
        t1 == backend_add(backend_begin, buckets.meta, "roles", roles)
        t2 == t1 \o forEach({[op |-> "add", bucket |-> allowsBucket(resource),
                              keys |-> {role}, values |-> permissions.vals] :
                                 resource \in resources.vals, role \in roles.vals})
        t3 == t2 \o forEach({[op |-> "add", bucket |-> buckets.resources,
                              keys |-> {role}, values |-> resources.vals] :
                                 role \in roles.vals})
    IN  backend_end(d, t3)

\* The first batch never submitted.
removePermissions1_notEnded(d, role, resources, permissions) == d

\* The first batch deleting the whole allows set whatever permissions are
\* given.
removePermissions1_delAll(d, role, resources, permissions) ==
    LET t1 == forEach({[op |-> "del", bucket |-> allowsBucket(resource),
                        keys |-> {role}, values |-> {}] :
                           resource \in resources.vals}
                      \cup
                      {[op |-> "remove", bucket |-> buckets.resources,
                        keys |-> {role}, values |-> {resource}] :
                           resource \in resources.vals})
    IN  backend_end(d, t1)

\* First batch of removePermissions.
removePermissions1(d, role, resources, permissions) ==
    LET t1 == forEach(
                 IF truthy(permissions)
                 THEN {[op |-> "remove", bucket |-> allowsBucket(resource),
                        keys |-> {role}, values |-> permissions.vals] :
                           resource \in resources.vals}
                 ELSE {[op |-> "del", bucket |-> allowsBucket(resource),
                        keys |-> {role}, values |-> {}] :
                           resource \in resources.vals}
                      \cup
                      {[op |-> "remove", bucket |-> buckets.resources,
                        keys |-> {role}, values |-> {resource}] :
                           resource \in resources.vals})
    IN  backend_end(d, t1)

\* The second batch left out.
removePermissions2_skipped(d, role, resources) == d

\* Second batch of removePermissions: the reads of the allows buckets and
\* the removal of the resources whose set was read empty.
removePermissions2(d, role, resources) ==
    LET t1 == forEach({[op |-> "remove", bucket |-> buckets.resources,
                        keys |-> {role}, values |-> {resource}] :
                           resource \in
                              {r \in resources.vals :
                                  Cardinality(backend_get(d, allowsBucket(r), role)) = 0}})
    IN  backend_end(d, t1)

removePermissions(d, role, resources, permissions) ==
    removePermissions2(removePermissions1(d, role, resources, permissions),
                       role, resources)

removeAllow(d, role, resources, permissions) ==
    removePermissions(d, role, makeArray(resources), permissions)

(***************************************************************************)
(* The permission check.  isAllowed reads the user's roles and hands them  *)
(* to _checkPermissions, which is a chain of backend reads: the union of   *)
(* the allows sets of the current roles, then the union of their parents,  *)
(* then the same again one level up.  The recursive call is the last thing *)
(* each level does, so a call in flight is its current arguments.  asked   *)
(* keeps the permissions the caller passed, which the code overwrites.     *)
(***************************************************************************)
Idle ==
    [pc |-> "idle", userId |-> "", resource |-> "", roles |-> {},
     permissions |-> {}, asked |-> {}, result |-> FALSE]

Done(c, result) == [c EXCEPT !.pc = "done", !.result = result]

_checkPermissions(c, roles, permissions) ==
    [c EXCEPT !.pc = "unionAllows", !.roles = roles, !.permissions = permissions]

areAnyRolesAllowed(c, roles0, permissions0) ==
    LET roles == makeArray(roles0)
        permissions == makeArray(permissions0)
    IN  IF Cardinality(roles.vals) = 0
        THEN Done(c, FALSE)
        ELSE _checkPermissions(c, roles.vals, permissions.vals)

\* isAllowed handing the roles it read to _checkPermissions unexamined.
isAllowed_unguarded(d, userId, resource, permissions) ==
    LET c == [Idle EXCEPT !.userId = userId, !.resource = resource,
                          !.asked = permissions.vals]
        roles == backend_get(d, buckets.users, userId)
    IN  _checkPermissions(c, roles, makeArray(permissions).vals)

\* isAllowed up to the answer of its read of the users bucket.
isAllowed(d, userId, resource, permissions) ==
    LET c == [Idle EXCEPT !.userId = userId, !.resource = resource,
                          !.asked = permissions.vals]
        roles == backend_get(d, buckets.users, userId)
    IN  IF Cardinality(roles) # 0
        THEN areAnyRolesAllowed(c, Arr(roles), permissions)
        ELSE Done(c, FALSE)

\* checkAllows demanding all the asked permissions of every level: the
\* permissions a lower level granted are not taken off the list.
checkAllows_noFilter(d, c) ==
    LET resourcePermissions == backend_union(d, allowsBucket(c.resource), c.roles)
    IN  IF "*" \in resourcePermissions
        THEN Done(c, TRUE)
        ELSE IF c.permissions \subseteq resourcePermissions
        THEN Done(c, TRUE)
        ELSE [c EXCEPT !.pc = "unionParents"]

\* checkAllows without the wildcard test.
checkAllows_noWildcard(d, c) ==
    LET resourcePermissions == backend_union(d, allowsBucket(c.resource), c.roles)
        permissions == {p \in c.permissions : p \notin resourcePermissions}
    IN  IF Cardinality(permissions) = 0
        THEN Done([c EXCEPT !.permissions = permissions], TRUE)
        ELSE [c EXCEPT !.pc = "unionParents", !.permissions = permissions]

\* _checkPermissions from the answer of the allows union to the next read.
checkAllows(d, c) ==
    LET resourcePermissions == backend_union(d, allowsBucket(c.resource), c.roles)
        permissions == {p \in c.permissions : p \notin resourcePermissions}
    IN  IF "*" \in resourcePermissions
        THEN Done(c, TRUE)
        ELSE IF Cardinality(permissions) = 0
        THEN Done([c EXCEPT !.permissions = permissions], TRUE)
        ELSE [c EXCEPT !.pc = "unionParents", !.permissions = permissions]

\* checkParents looking one level up only: the parents of the parents are
\* not followed.
checkParents_oneLevel(d, c) ==
    LET parents == backend_union(d, buckets.parents, c.roles)
    IN  IF Cardinality(parents) # 0 /\ c.roles = backend_get(d, buckets.users, c.userId)
        THEN _checkPermissions(c, parents, c.permissions)
        ELSE Done(c, FALSE)

\* checkParents refusing to climb to roles it is already looking at.
checkParents_visited(d, c) ==
    LET parents == backend_union(d, buckets.parents, c.roles)
    IN  IF Cardinality(parents) # 0 /\ ~(parents \subseteq c.roles)
        THEN _checkPermissions(c, parents, c.permissions)
        ELSE Done(c, FALSE)

\* _checkPermissions from the answer of the parents union on.
checkParents(d, c) ==
    LET parents == backend_union(d, buckets.parents, c.roles)
    IN  IF Cardinality(parents) # 0
        THEN _checkPermissions(c, parents, c.permissions)
        ELSE Done(c, FALSE)

\* One backend answer of a check in flight.
checkStep(d, c) ==
    IF c.pc = "unionAllows" THEN checkAllows(d, c) ELSE checkParents(d, c)

\* A whole check run against one unchanging store: the call as it returns,
\* or, when the chain of reads comes back to arguments it already had (it
\* then repeats for ever), the call marked "diverged".
RECURSIVE runCheck(_, _, _)
runCheck(d, c, seen) ==
    IF c.pc = "done" THEN c
    ELSE IF c \in seen THEN [c EXCEPT !.pc = "diverged"]
    ELSE runCheck(d, checkStep(d, c), seen \cup {c})

isAllowedRun(d, userId, resource, permissions) ==
    runCheck(d, isAllowed(d, userId, resource, permissions), {})

(***************************************************************************)
(* The role closure.  Here arrays are sequences, so that a role listed     *)
(* twice would show.  _allRoles asks for the parents of the roles it was   *)
(* given and, when there are any, calls itself on them and waits: a call   *)
(* in flight is the roles of the innermost call (roleNames) and the roles  *)
(* of the calls waiting for it (stack, innermost last).  When a parents    *)
(* read comes back empty the calls return one after the other, each the    *)
(* union of its roles with what the call it waited for returned.           *)
(***************************************************************************)
Range(a) == {a[i] : i \in DOMAIN a}

\* The array a backend read answers with: the members of the set, once each.
RECURSIVE arrayOf(_)
arrayOf(S) ==
    IF S = {} THEN <<>>
    ELSE LET x == CHOOSE y \in S : TRUE IN <<x>> \o arrayOf(S \ {x})

\* _.union(a, b): the values of a, then those of b, each value once.
RECURSIVE _uniq(_, _)
_uniq(a, acc) ==
    IF a = <<>> THEN acc
    ELSE _uniq(Tail(a), IF Head(a) \in Range(acc) THEN acc ELSE Append(acc, Head(a)))

\* _.union that keeps repeated values.
_union_concat(a, b) == a \o b

_union(a, b) == _uniq(a \o b, <<>>)

_rolesParents(d, roles) == arrayOf(backend_union(d, buckets.parents, Range(roles)))

NoCall ==
    [pc |-> "idle", caller |-> "", start |-> <<>>, roleNames |-> <<>>,
     stack |-> <<>>, result |-> <<>>]

_allRoles(c, roleNames) ==
    [c EXCEPT !.pc = "rolesParents", !.roleNames = roleNames]

\* _allRoles that stops climbing when it meets roles it has already seen.
allRolesParents_visited(d, c) ==
    LET parents == _rolesParents(d, c.roleNames)
        known == Range(c.roleNames) \cup UNION {Range(c.stack[i]) : i \in DOMAIN c.stack}
    IN  IF Len(parents) > 0 /\ ~(Range(parents) \subseteq known)
        THEN _allRoles([c EXCEPT !.stack = Append(@, c.roleNames)], parents)
        ELSE [c EXCEPT !.pc = "return", !.result = c.roleNames]

\* _allRoles from the answer of its parents read: the nested call, or the
\* return of the innermost call.
allRolesParents(d, c) ==
    LET parents == _rolesParents(d, c.roleNames)
    IN  IF Len(parents) > 0
        THEN _allRoles([c EXCEPT !.stack = Append(@, c.roleNames)], parents)
        ELSE [c EXCEPT !.pc = "return", !.result = c.roleNames]

\* A waiting call returning the union in which repeated roles are kept.
allRolesReturn_concat(c) ==
    IF c.stack = <<>> THEN [c EXCEPT !.pc = "done"]
    ELSE [c EXCEPT !.stack = SubSeq(@, 1, Len(@) - 1),
                   !.result = _union_concat(c.stack[Len(c.stack)], @)]

\* The innermost call has returned parentRoles (result): the call that
\* waited for it returns, or the caller of the outermost call has its answer.
allRolesReturn(c) ==
    IF c.stack = <<>> THEN [c EXCEPT !.pc = "done"]
    ELSE [c EXCEPT !.stack = SubSeq(@, 1, Len(@) - 1),
                   !.result = _union(c.stack[Len(c.stack)], @)]

_allUserRoles(d, userId) ==
    LET roles == arrayOf(userRoles(d, userId))
        c == [NoCall EXCEPT !.caller = "optimizedAllowedPermissions", !.start = roles]
    IN  IF Len(roles) > 0 THEN _allRoles(c, roles)
        ELSE [c EXCEPT !.pc = "done", !.result = <<>>]

_rolesResources(roles0) ==
    LET roles == arrayOf(makeArray(roles0).vals)
        c == [NoCall EXCEPT !.caller = "whatResources", !.start = roles]
    IN  _allRoles(c, roles)

allRolesStep(d, c) ==
    IF c.pc = "rolesParents" THEN allRolesParents(d, c) ELSE allRolesReturn(c)

\* A whole closure run against one unchanging store: the call with its
\* result, or, when a parents read is made for roles a waiting call already
\* holds (the reads then repeat for ever), the call marked "diverged".
RECURSIVE runAllRoles(_, _)
runAllRoles(d, c) ==
    IF c.pc = "done" THEN c
    ELSE IF c.pc = "rolesParents"
            /\ \E i \in DOMAIN c.stack : Range(c.stack[i]) = Range(c.roleNames)
    THEN [c EXCEPT !.pc = "diverged"]
    ELSE runAllRoles(d, allRolesStep(d, c))

(***************************************************************************)
(* The compact form of allow.  objs is one entry or a list of entries      *)
(* {roles, allows: [{resources, permissions}, ...]}; lists are sequences,  *)
(* their order is what the call goes by.  The entries are flattened into   *)
(* demuxed and bluebird.reduce calls allow for each item in turn, waiting  *)
(* for the promise of one call before it makes the next, and rejecting,    *)
(* without another call, as soon as one promise is rejected.  A call in    *)
(* flight is the list, the index k of the item whose batch is next (or in  *)
(* flight), and for the record the store it started from (base) and the    *)
(* indexes of the batches begun and ended so far.                          *)
(***************************************************************************)
Obj(o) == [kind |-> "object", items |-> <<o>>]

ObjArr(a) == [kind |-> "array", items |-> a]

RECURSIVE demux(_)
demux(objs) ==
    IF objs = <<>> THEN <<>>
    ELSE LET obj == Head(objs)
         IN  [i \in DOMAIN obj.allows |->
                 [roles |-> obj.roles, resources |-> obj.allows[i].resources,
                  permissions |-> obj.allows[i].permissions]]
             \o demux(Tail(objs))

NoAllowEx ==
    [pc |-> "idle", demuxed |-> <<>>, k |-> 0, base |-> EmptyStore,
     begun |-> <<>>, ended |-> <<>>, error |-> ""]

\* bluebird.reduce about to call the reducer for item k, or resolved when
\* no item is left.
reduceFrom(c, k) ==
    IF k > Len(c.demuxed) THEN [c EXCEPT !.pc = "resolved", !.k = k]
    ELSE [c EXCEPT !.pc = "reduce", !.k = k]

_allowEx(d, objs) ==
    reduceFrom([NoAllowEx EXCEPT !.demuxed = demux(objs.items), !.base = d], 1)

\* The reducer: allow(roles, resources, permissions) for item k has begun
\* its batch.
allowExBegin(c) == [c EXCEPT !.pc = "batch", !.begun = Append(@, c.k)]

\* The store once the batch of item k has ended, applied or discarded.
allowExStore(d, c, ok) ==
    IF ok
    THEN LET item == c.demuxed[c.k]
         IN  allow(d, item.roles, item.resources, item.permissions)
    ELSE d

\* A reduce that goes on to the next item when a batch has failed.
allowExEnd_goesOn(c, ok) ==
    reduceFrom([c EXCEPT !.ended = Append(@, c.k),
                         !.error = IF ok THEN @ ELSE "backend"], c.k + 1)

\* The batch of item k has ended: the next item's turn, or the rejection
\* of the whole call with the backend's error.
allowExEnd(c, ok) ==
    IF ok THEN reduceFrom([c EXCEPT !.ended = Append(@, c.k)], c.k + 1)
    ELSE [c EXCEPT !.pc = "rejected", !.error = "backend"]

(***************************************************************************)
(* The middleware.  A request is what the handler looks at: how the        *)
(* middleware was given userId (not at all, an id, a function that answers *)
(* an id or nothing), req.session.userId and req.user.id ("" when absent), *)
(* and the resource and action the url and the method stand for.  A        *)
(* request in hand (mw) counts the calls of next and keeps the argument of *)
(* the last one ("none" for next()), whether isAllowed was called, and how *)
(* the promise of isAllowed settled.                                       *)
(***************************************************************************)
NoRequest ==
    [pc |-> "idle", userId |-> "", nextCalls |-> 0, nextArg |-> "",
     checked |-> FALSE, outcome |-> ""]

\* _userId as the handler resolves it, "" when it calls next with 401.
principal(req) ==
    LET _userId == IF req.userId = "function" THEN req.answer
                   ELSE IF req.userId = "id" THEN req.answer
                   ELSE ""
    IN  IF req.userId = "absent"
        THEN IF req.session # "" THEN req.session
             ELSE IF req.user # "" THEN req.user
             ELSE ""
        ELSE _userId

next(m, arg) == [m EXCEPT !.nextCalls = @ + 1, !.nextArg = arg]

\* The handler when no principal is resolved.
unauthenticated(m) == [next(m, "401") EXCEPT !.pc = "finished"]

\* The handler from the resolved principal to its call of isAllowed.
checking(m, _userId) ==
    [m EXCEPT !.pc = "checking", !.userId = _userId, !.checked = TRUE]

\* The function the handler hands to isAllowed as a fourth argument.
checkCallback(m, err, allowed) ==
    IF err THEN next(m, "error")
    ELSE IF allowed = FALSE THEN next(m, "403")
    ELSE next(m, "none")

\* The promise of isAllowed has settled.  isAllowed takes three parameters
\* and never looks at a fourth argument: nothing is attached to the promise
\* and checkCallback is not called.
isAllowedSettled(m, outcome) == [m EXCEPT !.pc = "settled", !.outcome = outcome]

(***************************************************************************)
(* Calls that overlap.  A grant in flight (gr) is an allow call whose      *)
(* batch is queued and not yet ended.  A revoke in flight (rv) is a        *)
(* removeAllow call: its first batch queued ("phase1"), then, that batch   *)
(* ended, the reads of the allows sets still to be answered (pending) and  *)
(* the resources read empty so far (empties), then the second batch        *)
(* queued ("phase2").  at records what the revoke was doing when the grant *)
(* committed.                                                              *)
(***************************************************************************)
NoGrant ==
    [pc |-> "idle", roles |-> Undefined, resources |-> Undefined,
     permissions |-> Undefined, txn |-> <<>>, base |-> EmptyStore, at |-> "",
     during |-> ""]

NoRevoke ==
    [pc |-> "idle", role |-> "", resources |-> Undefined,
     permissions |-> Undefined, pending |-> {}, empties |-> {}]

\* What the reference answered in the stores a check in flight has lived
\* through: in one of them at least (any), in all of them (all), and whether
\* a mutation committed since its first read (mutated).
NoHistory == [any |-> FALSE, all |-> TRUE, mutated |-> FALSE]

\* A removeRole in flight (rr): its read of resources[role] answered and
\* its batch queued.  gr.during records what the removeRole was doing when
\* the grant committed.
NoRemoval == [pc |-> "idle", role |-> "", resources |-> {}]

\* removeRole up to the answer of its read.
removeRoleRead(d, role) ==
    [NoRemoval EXCEPT !.pc = "queued", !.role = role,
                      !.resources = backend_get(d, buckets.resources, role)]

\* removeRole reading resources[role] again when its batch is ended.
removeRoleEnd_rereads(d, c) == removeRole(d, c.role)

\* The batch of the removeRole in flight, built from what it read.
removeRoleEnd(d, c) == backend_end(d, removeRoleTransaction(c.role, c.resources))

\* A batch without the additions to resources[role].
allowTransaction_noIndex(roles0, resources0, permissions) ==
    LET roles == makeArray(roles0)
        resources == makeArray(resources0)
        t1 == backend_add(backend_begin, buckets.meta, "roles", roles)
    IN  t1 \o forEach({[op |-> "add", bucket |-> allowsBucket(resource),
                        keys |-> {role}, values |-> permissions.vals] :
                           resource \in resources.vals, role \in roles.vals})

\* The batch allow queues before it calls backend.end.
allowTransaction(roles0, resources0, permissions) ==
    LET roles == makeArray(roles0)
        resources == makeArray(resources0)
        t1 == backend_add(backend_begin, buckets.meta, "roles", roles)
        t2 == t1 \o forEach({[op |-> "add", bucket |-> allowsBucket(resource),
                              keys |-> {role}, values |-> permissions.vals] :
                                 resource \in resources.vals, role \in roles.vals})
        t3 == t2 \o forEach({[op |-> "add", bucket |-> buckets.resources,
                              keys |-> {role}, values |-> resources.vals] :
                                 role \in roles.vals})
    IN  t3

\* removeAllow up to the end of the first batch of removePermissions.
revokeEnd1(c) == [c EXCEPT !.pc = "reading", !.pending = c.resources.vals]

\* A read that takes every allows set for empty.
revokeRead_allEmpty(d, c, resource) ==
    LET c2 == [c EXCEPT !.pending = @ \ {resource}, !.empties = @ \cup {resource}]
    IN  IF c2.pending = {} THEN [c2 EXCEPT !.pc = "phase2"] ELSE c2

\* backend.get(bucket, role) of the second phase answered for one resource;
\* when all have answered the second batch is ready to be ended.
revokeRead(d, c, resource) ==
    LET length == Cardinality(backend_get(d, allowsBucket(resource), c.role))
        c2 == [c EXCEPT !.pending = @ \ {resource},
                        !.empties = IF length = 0 THEN @ \cup {resource} ELSE @]
    IN  IF c2.pending = {} THEN [c2 EXCEPT !.pc = "phase2"] ELSE c2

\* The second batch: the resources read empty leave resources[role].
revokeEnd2(d, c) ==
    backend_end(d, forEach({[op |-> "remove", bucket |-> buckets.resources,
                             keys |-> {c.role}, values |-> {resource}] :
                                resource \in c.empties}))

(***************************************************************************)
(* The bulk queries, arrays as sets again: what a user may do on each of   *)
(* the requested resources.  Each answers with the mapping, or is marked   *)
(* "diverged" when its chain of reads does not end.                        *)
(***************************************************************************)
Resolved(result) == [pc |-> "done", result |-> result]

Diverged == [pc |-> "diverged", result |-> {}]

\* backend.unions(buckets, keys): for each bucket the union over the keys.
backend_unions(d, bkts, keys) ==
    [b \in bkts |-> UNION {d[b][k] : k \in keys}]

\* seen holds the role sets of the calls waiting for this one.
RECURSIVE _resourcePermissions(_, _, _, _)
_resourcePermissions(d, roles, resource, seen) ==
    IF Cardinality(roles) = 0 THEN Resolved({})
    ELSE IF roles \in seen THEN Diverged
    ELSE LET resourcePermissions == backend_union(d, allowsBucket(resource), roles)
             parents == Range(_rolesParents(d, arrayOf(roles)))
         IN  IF Cardinality(parents) # 0
             THEN LET morePermissions ==
                          _resourcePermissions(d, parents, resource, seen \cup {roles})
                  IN  IF morePermissions.pc = "diverged" THEN Diverged
                      ELSE Resolved(resourcePermissions \cup morePermissions.result)
             ELSE Resolved(resourcePermissions)

\* allowedPermissions that asks for the user's own roles only.
allowedPermissions_ownRoles(d, userId, resources0) ==
    LET resources == makeArray(resources0)
        roles == userRoles(d, userId)
    IN  Resolved([resource \in resources.vals |->
                     backend_union(d, allowsBucket(resource), roles)])

\* allowedPermissions on a backend without unions.
allowedPermissions(d, userId, resources0) ==
    LET resources == makeArray(resources0)
        roles == userRoles(d, userId)
        permissions == [resource \in resources.vals |->
                           _resourcePermissions(d, roles, resource, {})]
    IN  IF \E resource \in resources.vals : permissions[resource].pc = "diverged"
        THEN Diverged
        ELSE Resolved([resource \in resources.vals |-> permissions[resource].result])

optimizedAllowedPermissions(d, userId, resources0) ==
    LET resources == makeArray(resources0)
        c == runAllRoles(d, _allUserRoles(d, userId))
        roles == c.result
        bkts == {allowsBucket(resource) : resource \in resources.vals}
        response == IF Len(roles) = 0 THEN [bucket \in bkts |-> {}]
                    ELSE backend_unions(d, bkts, Range(roles))
    IN  IF c.pc = "diverged" THEN Diverged
        ELSE Resolved([key \in {keyFromAllowsBucket(bucket) : bucket \in DOMAIN response} |->
                          response[CHOOSE bucket \in DOMAIN response :
                                      keyFromAllowsBucket(bucket) = key]])

(***************************************************************************)
(* The resource queries.  Lists are sequences here, so that a resource     *)
(* listed twice shows.  The reads of one bluebird.all are taken in the     *)
(* order of the list they map over; the answers differ from another order  *)
(* by the order of their entries only.                                     *)
(***************************************************************************)
\* _rolesResources once _allRoles has answered: the resources lists of the
\* roles, concatenated.
RECURSIVE rolesResourcesResult(_, _)
rolesResourcesResult(d, allRoles) ==
    IF allRoles = <<>> THEN <<>>
    ELSE arrayOf(backend_get(d, buckets.resources, Head(allRoles)))
             \o rolesResourcesResult(d, Tail(allRoles))

\* The pushes of permittedResources when permissions were given.
RECURSIVE permittedPush(_, _, _, _)
permittedPush(d, roles, permissions, resources) ==
    IF resources = <<>> THEN Resolved(<<>>)
    ELSE LET resource == Head(resources)
             p == _resourcePermissions(d, roles.vals, resource, {})
             rest == permittedPush(d, roles, permissions, Tail(resources))
         IN  IF p.pc = "diverged" \/ rest.pc = "diverged" THEN Diverged
             ELSE LET commonPermissions == permissions.vals \cap p.result
                  IN  IF Cardinality(commonPermissions) > 0
                      THEN Resolved(<<resource>> \o rest.result)
                      ELSE rest

permittedResources(d, roles, permissions) ==
    LET c == runAllRoles(d, _rolesResources(roles))
        resources == rolesResourcesResult(d, c.result)
    IN  IF c.pc = "diverged" THEN Diverged
        ELSE IF truthy(permissions)
        THEN permittedPush(d, roles, permissions, resources)
        ELSE LET p == [resource \in Range(resources) |->
                          _resourcePermissions(d, roles.vals, resource, {})]
             IN  IF \E resource \in Range(resources) : p[resource].pc = "diverged"
                 THEN Diverged
                 ELSE Resolved([resource \in Range(resources) |-> p[resource].result])

whatResources(d, roles0, permissions0) ==
    LET roles == makeArray(roles0)
        permissions == IF truthy(permissions0) THEN makeArray(permissions0)
                       ELSE permissions0
    IN  permittedResources(d, roles, permissions)

(***************************************************************************)
(* Arguments the operations are called with: a menu per specification.     *)
(* Spec calls the mutations with strings and arrays over two users and two *)
(* resources (parents edges one at a time); SpecCheck builds hierarchies   *)
(* one edge and one grant at a time and runs the permission check on them. *)
(***************************************************************************)
RoleArgs == {Str(r) : r \in Roles} \cup {Arr({"user", "guest"})}

EdgeArgs == {Str(r) : r \in Roles}

ResourceArgs == {Str("blogs"), Arr(Resources)}

PermArgs == {Str("get"), Arr({"get", "put"})}

Menu ==
    [users |-> Users, roles |-> Roles, roleArgs |-> RoleArgs,
     edgeArgs |-> EdgeArgs, parentArgs |-> EdgeArgs \cup {Undefined},
     resources |-> Resources, resourceArgs |-> ResourceArgs,
     permArgs |-> PermArgs, revokeArgs |-> PermArgs \cup {Undefined},
     maxOps |-> MaxOps]

CheckMenu ==
    [users |-> {"u1"}, roles |-> Roles, roleArgs |-> EdgeArgs,
     edgeArgs |-> EdgeArgs, parentArgs |-> EdgeArgs,
     resources |-> {"blogs"}, resourceArgs |-> {Str("blogs")},
     permArgs |-> {Str("get"), Str("put"), Str("*")},
     revokeArgs |-> {Str("get"), Undefined},
     maxOps |-> MaxCheckOps]

\* SpecUsers assigns and unassigns single roles and lists of roles.
UsersMenu ==
    [users |-> Users,
     roleArgs |-> {Str(r) : r \in Roles}
                     \cup {Arr(S) : S \in {{"user", "guest"}, {"admin", "user"}, Roles}},
     maxOps |-> MaxUserOps]

\* SpecClosure builds a hierarchy edge by edge, with grants on it, and runs
\* the role closure for a user and for given roles.
ClosureMenu ==
    [users |-> {"u1"}, roles |-> Roles, roleArgs |-> EdgeArgs,
     edgeArgs |-> EdgeArgs,
     resourceArgs |-> {Str(res) : res \in Resources},
     permArgs |-> {Str("get")},
     maxOps |-> MaxClosureOps]

\* The roles the closure is asked for: a role, or a list of roles.
StartArgs == {Str("admin"), Arr({"user", "guest"})}

\* The compact grants SpecAllowEx makes: two entries with three items in
\* all, an entry by itself (not in a list), an entry that grants the same
\* role on the same resource twice, and a list without entries.
ExArgs ==
    {ObjArr(<<[roles |-> Str("admin"),
               allows |-> <<[resources |-> Str("blogs"), permissions |-> Str("get")],
                            [resources |-> Arr(Resources), permissions |-> Arr({"get", "put"})]>>],
              [roles |-> Arr({"user", "guest"}),
               allows |-> <<[resources |-> Str("docs"), permissions |-> Str("put")]>>]>>),
     Obj([roles |-> Str("guest"),
          allows |-> <<[resources |-> Str("blogs"), permissions |-> Str("get")]>>]),
     ObjArr(<<[roles |-> Str("user"),
               allows |-> <<[resources |-> Str("blogs"), permissions |-> Str("put")],
                            [resources |-> Str("blogs"), permissions |-> Str("*")]>>]>>),
     ObjArr(<<>>)}

\* SpecBatch: a user and a parents edge beside the grants, which are made to
\* one role or two, on one resource or two.
BatchMenu ==
    [users |-> {"u1"}, roles |-> {"admin"}, roleArgs |-> {Str("admin")},
     edgeArgs |-> {Str("user")}, maxOps |-> MaxBatchOps]

BatchRoleArgs == {Str("admin"), Arr({"user", "guest"})}

\* SpecMiddleware: one user with roles, grants on one resource, and the
\* requests the handler is given.
MwMenu ==
    [users |-> {"u1"}, roles |-> {"admin", "user"},
     roleArgs |-> {Str("admin"), Str("user")}, edgeArgs |-> {Str("user")},
     resourceArgs |-> {Str("blogs")}, permArgs |-> {Str("get"), Str("put")},
     maxOps |-> MaxMwOps]

Requests ==
    [userId : {"absent"}, answer : {""}, session : {"", "u1"}, user : {"", "u2"},
     resource : {"blogs"}, actions : {Str("get"), Str("put")}]
    \cup
    [userId : {"id", "function"}, answer : {"u1"}, session : {""}, user : {""},
     resource : {"blogs"}, actions : {Str("get")}]
    \cup
    [userId : {"function"}, answer : {""}, session : {"u1"}, user : {""},
     resource : {"blogs"}, actions : {Str("get")}]

\* SpecRace: grants and revokes of one role on one or both resources.
RaceMenu ==
    [roles |-> {"admin"}, roleArgs |-> {Str("admin")},
     resourceArgs |-> {Str("blogs"), Arr(Resources)},
     permArgs |-> {Str("get"), Str("put")},
     revokeArgs |-> {Str("get"), Undefined},
     maxOps |-> MaxRaceOps]

\* SpecRoleRace: a user holding the role, grants to it and its removal.
RoleRaceMenu ==
    [users |-> {"u1"}, roles |-> {"admin"}, roleArgs |-> {Str("admin")},
     maxOps |-> MaxRoleRaceOps]

\* SpecLinear: one user, admin with user as its only possible parent, grants
\* and revokes of get and put on blogs to either role.
LinMenu ==
    [users |-> {"u1"}, roleArgs |-> {Str("admin")}, children |-> {"admin"},
     parentArgs |-> {Str("user")}, grantees |-> {"admin", "user"},
     resourceArgs |-> {Str("blogs")}, permArgs |-> {Str("get"), Str("put")},
     asked |-> {Str("get"), Arr({"get", "put"})}]

\* SpecRemoved: one user, two roles that can be each other's (and their
\* own) parent, grants of get and "*" on blogs.
RemovedMenu ==
    [users |-> {"u1"}, roles |-> {"admin", "user"},
     roleArgs |-> {Str("admin"), Str("user")},
     edgeArgs |-> {Str("admin"), Str("user")},
     parentArgs |-> {Str("admin"), Str("user")},
     resources |-> {"blogs"}, resourceArgs |-> {Str("blogs")},
     permArgs |-> {Str("get"), Str("*")},
     revokeArgs |-> {Str("get"), Undefined},
     maxOps |-> MaxRemovedOps]

\* What isAllowed is asked: "post" is granted to nobody.
AskedArgs == {Str("get"), Arr({"get", "put"}), Str("post")}

(***************************************************************************)
(* Actions.  A mutating call runs to completion in one step and no call    *)
(* starts while a check is in flight.                                      *)
(***************************************************************************)
\* No call of the model is in flight.
Quiet ==
    /\ chk.pc = "idle"
    /\ cl.pc = "idle"
    /\ ex.pc = "idle"
    /\ gr.pc = "idle"
    /\ rv.pc = "idle"
    /\ mw.pc = "idle"
    /\ rr.pc = "idle"

CanMutate(m) == Quiet /\ nops < m.maxOps

Mutate(d) == db' = d /\ nops' = nops + 1 /\ UNCHANGED <<chk, reads, cl, ex, gr, rv, mw, rr, lin, removed>>

CallAddUserRoles(m) ==
    \E userId \in m.users, roles \in m.roleArgs :
        CanMutate(m) /\ Mutate(addUserRoles(db, userId, roles))

CallRemoveUserRoles(m) ==
    \E userId \in m.users, roles \in m.roleArgs :
        CanMutate(m) /\ Mutate(removeUserRoles(db, userId, roles))

CallAddRoleParents(m) ==
    \E role \in m.roles, parents \in m.edgeArgs :
        CanMutate(m) /\ Mutate(addRoleParents(db, role, parents))

CallRemoveRoleParents(m) ==
    \E role \in m.roles, parents \in m.parentArgs :
        CanMutate(m) /\ Mutate(removeRoleParents(db, role, parents))

CallRemoveRole(m) ==
    \E role \in m.roles : CanMutate(m) /\ Mutate(removeRole(db, role))

CallRemoveResource(m) ==
    \E resource \in m.resources :
        CanMutate(m) /\ Mutate(removeResource(db, resource))

CallAllow(m) ==
    \E roles \in m.roleArgs, resources \in m.resourceArgs,
       permissions \in m.permArgs :
        CanMutate(m) /\ Mutate(allow(db, roles, resources, permissions))

CallRemoveAllow(m) ==
    \E role \in m.roles, resources \in m.resourceArgs,
       permissions \in m.revokeArgs :
        CanMutate(m) /\ Mutate(removeAllow(db, role, resources, permissions))

CallIsAllowed ==
    \E userId \in Users, resource \in CheckMenu.resources,
       permissions \in AskedArgs :
        /\ chk.pc = "idle"
        /\ chk' = isAllowed(db, userId, resource, permissions)
        /\ reads' = {buckets.users}
        /\ UNCHANGED <<db, nops, cl, ex, gr, rv, mw, rr, lin, removed>>

UnionAllows ==
    /\ chk.pc = "unionAllows"
    /\ chk' = checkAllows(db, chk)
    /\ reads' = reads \cup {allowsBucket(chk.resource)}
    /\ UNCHANGED <<db, nops, cl, ex, gr, rv, mw, rr, lin, removed>>

UnionParents ==
    /\ chk.pc = "unionParents"
    /\ chk' = checkParents(db, chk)
    /\ reads' = reads \cup {buckets.parents}
    /\ UNCHANGED <<db, nops, cl, ex, gr, rv, mw, rr, lin, removed>>

Return ==
    /\ chk.pc = "done"
    /\ chk' = Idle
    /\ reads' = {}
    /\ UNCHANGED <<db, nops, cl, ex, gr, rv, mw, rr, lin, removed>>

\* The closure as optimizedAllowedPermissions asks for it.
CallAllUserRoles ==
    \E userId \in ClosureMenu.users :
        /\ cl.pc = "idle"
        /\ cl' = _allUserRoles(db, userId)
        /\ UNCHANGED <<db, nops, chk, reads, ex, gr, rv, mw, rr, lin, removed>>

\* The closure as whatResources asks for it.
CallRolesResources ==
    \E roles \in StartArgs :
        /\ cl.pc = "idle"
        /\ cl' = _rolesResources(roles)
        /\ UNCHANGED <<db, nops, chk, reads, ex, gr, rv, mw, rr, lin, removed>>

RolesParents ==
    /\ cl.pc = "rolesParents"
    /\ Len(cl.stack) < MaxDepth
    /\ cl' = allRolesParents(db, cl)
    /\ UNCHANGED <<db, nops, chk, reads, ex, gr, rv, mw, rr, lin, removed>>

AllRolesReturn ==
    /\ cl.pc = "return"
    /\ cl' = allRolesReturn(cl)
    /\ UNCHANGED <<db, nops, chk, reads, ex, gr, rv, mw, rr, lin, removed>>

\* The caller has taken the closure.
AllRolesDone ==
    /\ cl.pc = "done"
    /\ cl' = NoCall
    /\ UNCHANGED <<db, nops, chk, reads, ex, gr, rv, mw, rr, lin, removed>>

CallAllowEx ==
    \E objs \in ExArgs :
        /\ ex.pc = "idle"
        /\ nops < MaxExOps
        /\ ex' = _allowEx(db, objs)
        /\ UNCHANGED <<db, nops, chk, reads, cl, gr, rv, mw, rr, lin, removed>>

AllowExBegin ==
    /\ ex.pc = "reduce"
    /\ ex' = allowExBegin(ex)
    /\ UNCHANGED <<db, nops, chk, reads, cl, gr, rv, mw, rr, lin, removed>>

\* backend.end answers: the batch was applied, or it failed and was
\* discarded.
AllowExEnd ==
    \E ok \in BOOLEAN :
        /\ ex.pc = "batch"
        /\ db' = allowExStore(db, ex, ok)
        /\ ex' = allowExEnd(ex, ok)
        /\ nops' = nops + 1
        /\ UNCHANGED <<chk, reads, cl, gr, rv, mw, rr, lin, removed>>

\* The caller has the outcome of the call.
AllowExSettled ==
    /\ ex.pc \in {"resolved", "rejected"}
    /\ ex' = NoAllowEx
    /\ UNCHANGED <<db, nops, chk, reads, cl, gr, rv, mw, rr, lin, removed>>

(***************************************************************************)
(* SpecRace: one allow and one removeAllow in flight at a time, the steps  *)
(* of the two in any order; each batch is applied in one step.             *)
(***************************************************************************)
GrantCall ==
    \E roles \in RaceMenu.roleArgs, resources \in RaceMenu.resourceArgs,
       permissions \in RaceMenu.permArgs :
        /\ gr.pc = "idle"
        /\ nops < MaxRaceOps
        /\ gr' = [NoGrant EXCEPT !.pc = "queued", !.roles = roles,
                                 !.resources = resources,
                                 !.permissions = permissions]
        /\ UNCHANGED <<db, nops, chk, reads, cl, ex, rv, mw, rr, lin, removed>>

GrantEnd ==
    /\ gr.pc = "queued"
    /\ db' = allow(db, gr.roles, gr.resources, gr.permissions)
    /\ gr' = [gr EXCEPT !.pc = "done", !.at = rv.pc, !.during = rr.pc]
    /\ nops' = nops + 1
    /\ UNCHANGED <<chk, reads, cl, ex, rv, mw, rr, lin, removed>>

RevokeCall ==
    \E role \in RaceMenu.roles, resources \in RaceMenu.resourceArgs,
       permissions \in RaceMenu.revokeArgs :
        /\ rv.pc = "idle"
        /\ nops < MaxRaceOps
        /\ rv' = [NoRevoke EXCEPT !.pc = "phase1", !.role = role,
                                  !.resources = makeArray(resources),
                                  !.permissions = permissions]
        /\ UNCHANGED <<db, nops, chk, reads, cl, ex, gr, mw, rr, lin, removed>>

RevokeEnd1 ==
    /\ rv.pc = "phase1"
    /\ db' = removePermissions1(db, rv.role, rv.resources, rv.permissions)
    /\ rv' = revokeEnd1(rv)
    /\ nops' = nops + 1
    /\ UNCHANGED <<chk, reads, cl, ex, gr, mw, rr, lin, removed>>

RevokeRead ==
    \E resource \in rv.pending :
        /\ rv.pc = "reading"
        /\ rv' = revokeRead(db, rv, resource)
        /\ UNCHANGED <<db, nops, chk, reads, cl, ex, gr, mw, rr, lin, removed>>

RevokeEnd2 ==
    /\ rv.pc = "phase2"
    /\ db' = revokeEnd2(db, rv)
    /\ rv' = [rv EXCEPT !.pc = "done"]
    /\ nops' = nops + 1
    /\ UNCHANGED <<chk, reads, cl, ex, gr, mw, rr, lin, removed>>

\* Nothing is in flight any more and the callers have their answers.
RaceSettled ==
    /\ gr.pc \in {"idle", "done"}
    /\ rv.pc \in {"idle", "done"}
    /\ gr.pc = "done" \/ rv.pc = "done"
    /\ gr' = NoGrant
    /\ rv' = NoRevoke
    /\ UNCHANGED <<db, nops, chk, reads, cl, ex, mw, rr, lin, removed>>

(***************************************************************************)
(* SpecRoleRace: one allow and one removeRole in flight at a time, the      *)
(* steps of the two in any order; each batch is applied in one step.       *)
(***************************************************************************)
RemoveRoleCall ==
    \E role \in RoleRaceMenu.roles :
        /\ rr.pc = "idle"
        /\ nops < MaxRoleRaceOps
        /\ rr' = removeRoleRead(db, role)
        /\ UNCHANGED <<db, nops, chk, reads, cl, ex, gr, rv, mw, lin, removed>>

RemoveRoleEnd ==
    /\ rr.pc = "queued"
    /\ db' = removeRoleEnd(db, rr)
    /\ rr' = [rr EXCEPT !.pc = "done"]
    /\ nops' = nops + 1
    /\ UNCHANGED <<chk, reads, cl, ex, gr, rv, mw, lin, removed>>

\* Nothing is in flight any more and the callers have their answers.
RoleRaceSettled ==
    /\ gr.pc \in {"idle", "done"}
    /\ rr.pc \in {"idle", "done"}
    /\ gr.pc = "done" \/ rr.pc = "done"
    /\ gr' = NoGrant
    /\ rr' = NoRemoval
    /\ UNCHANGED <<db, nops, chk, reads, cl, ex, rv, mw, lin, removed>>

(***************************************************************************)
(* SpecBatch: the batch of an allow call on a backend for which a batch is *)
(* a best-effort grouping.  backend.end applies the queued mutations in    *)
(* order, all in one step or some now and the rest later.                  *)
(***************************************************************************)
BatchCall ==
    \E roles \in BatchRoleArgs, resources \in ResourceArgs, permissions \in PermArgs :
        /\ Quiet
        /\ nops < MaxBatchOps
        /\ gr' = [NoGrant EXCEPT !.pc = "queued", !.roles = roles,
                                 !.resources = resources,
                                 !.permissions = permissions,
                                 !.txn = allowTransaction(roles, resources, permissions),
                                 !.base = db]
        /\ nops' = nops + 1
        /\ UNCHANGED <<db, chk, reads, cl, ex, rv, mw, rr, lin, removed>>

BatchApply ==
    \E n \in 1..Len(gr.txn) :
        /\ gr.pc \in {"queued", "applying"}
        /\ db' = backend_end(db, SubSeq(gr.txn, 1, n))
        /\ gr' = [gr EXCEPT !.txn = SubSeq(@, n + 1, Len(@)),
                            !.pc = IF n = Len(gr.txn) THEN "done" ELSE "applying"]
        /\ UNCHANGED <<nops, chk, reads, cl, ex, rv, mw, rr, lin, removed>>

BatchSettled ==
    /\ gr.pc = "done"
    /\ gr.txn = <<>>
    /\ gr' = NoGrant
    /\ UNCHANGED <<db, nops, chk, reads, cl, ex, rv, mw, rr, lin, removed>>

(***************************************************************************)
(* SpecMiddleware: the handler on one request at a time.                   *)
(***************************************************************************)
MwRequest ==
    \E req \in Requests :
        /\ Quiet
        /\ IF principal(req) = ""
           THEN /\ mw' = unauthenticated(NoRequest)
                /\ UNCHANGED <<chk, reads>>
           ELSE /\ mw' = checking(NoRequest, principal(req))
                /\ chk' = isAllowed(db, principal(req), req.resource, req.actions)
                /\ reads' = {buckets.users}
        /\ UNCHANGED <<db, nops, cl, ex, gr, rv, rr, lin, removed>>

\* The promise of isAllowed resolved with the answer of the check.
MwCheckResolved ==
    /\ mw.pc = "checking"
    /\ chk.pc = "done"
    /\ mw' = isAllowedSettled(mw, IF chk.result THEN "true" ELSE "false")
    /\ chk' = Idle
    /\ reads' = {}
    /\ UNCHANGED <<db, nops, cl, ex, gr, rv, rr, lin, removed>>

\* A backend read of the check failed: the promise of isAllowed rejected.
MwCheckRejected ==
    /\ mw.pc = "checking"
    /\ chk.pc \in {"unionAllows", "unionParents"}
    /\ mw' = isAllowedSettled(mw, "rejected")
    /\ chk' = Idle
    /\ reads' = {}
    /\ UNCHANGED <<db, nops, cl, ex, gr, rv, rr, lin, removed>>

\* The handler is given the next request.
MwFinished ==
    /\ mw.pc \in {"finished", "settled"}
    /\ mw' = NoRequest
    /\ UNCHANGED <<db, nops, chk, reads, cl, ex, gr, rv, rr, lin, removed>>

Init ==
    /\ db = EmptyStore
    /\ chk = Idle
    /\ reads = {}
    /\ nops = 0
    /\ cl = NoCall
    /\ ex = NoAllowEx
    /\ gr = NoGrant
    /\ rv = NoRevoke
    /\ mw = NoRequest
    /\ rr = NoRemoval
    /\ lin = NoHistory
    /\ removed = {}

Next ==
    \/ CallAddUserRoles(Menu)
    \/ CallRemoveUserRoles(Menu)
    \/ CallAddRoleParents(Menu)
    \/ CallRemoveRoleParents(Menu)
    \/ CallRemoveRole(Menu)
    \/ CallRemoveResource(Menu)
    \/ CallAllow(Menu)
    \/ CallRemoveAllow(Menu)

Spec == Init /\ [][Next]_vars

NextCheck ==
    \/ CallAddUserRoles(CheckMenu)
    \/ CallRemoveUserRoles(CheckMenu)
    \/ CallAddRoleParents(CheckMenu)
    \/ CallRemoveRoleParents(CheckMenu)
    \/ CallRemoveRole(CheckMenu)
    \/ CallRemoveResource(CheckMenu)
    \/ CallAllow(CheckMenu)
    \/ CallRemoveAllow(CheckMenu)
    \/ CallIsAllowed
    \/ UnionAllows
    \/ UnionParents
    \/ Return

SpecCheck == Init /\ [][NextCheck]_vars

NextClosure ==
    \/ CallAddUserRoles(ClosureMenu)
    \/ CallAddRoleParents(ClosureMenu)
    \/ CallAllow(ClosureMenu)
    \/ CallAllUserRoles
    \/ CallRolesResources
    \/ RolesParents
    \/ AllRolesReturn
    \/ AllRolesDone

SpecClosure == Init /\ [][NextClosure]_vars

NextAllowEx ==
    \/ CallAllowEx
    \/ AllowExBegin
    \/ AllowExEnd
    \/ AllowExSettled

SpecAllowEx == Init /\ [][NextAllowEx]_vars

NextRace ==
    \/ GrantCall
    \/ GrantEnd
    \/ RevokeCall
    \/ RevokeEnd1
    \/ RevokeRead
    \/ RevokeEnd2
    \/ RaceSettled

SpecRace == Init /\ [][NextRace]_vars

NextRoleRace ==
    \/ CallAddUserRoles(RoleRaceMenu)
    \/ GrantCall
    \/ GrantEnd
    \/ RemoveRoleCall
    \/ RemoveRoleEnd
    \/ RoleRaceSettled

SpecRoleRace == Init /\ [][NextRoleRace]_vars

NextBatch ==
    \/ CallAddUserRoles(BatchMenu)
    \/ CallAddRoleParents(BatchMenu)
    \/ BatchCall
    \/ BatchApply
    \/ BatchSettled

SpecBatch == Init /\ [][NextBatch]_vars

NextMiddleware ==
    \/ CallAddUserRoles(MwMenu)
    \/ CallAddRoleParents(MwMenu)
    \/ CallAllow(MwMenu)
    \/ MwRequest
    \/ UnionAllows
    \/ UnionParents
    \/ MwCheckResolved
    \/ MwCheckRejected
    \/ MwFinished

SpecMiddleware == Init /\ [][NextMiddleware]_vars

NextUsers ==
    \/ CallAddUserRoles(UsersMenu)
    \/ CallRemoveUserRoles(UsersMenu)

SpecUsers == Init /\ [][NextUsers]_vars

(***************************************************************************)
(* The reference the check is compared with: the roles reachable from a    *)
(* set of roles over parents edges, and what those roles are granted.      *)
(***************************************************************************)
RECURSIVE Closure(_, _)
Closure(d, S) ==
    LET T == S \cup UNION {d[buckets.parents][r] : r \in S}
    IN  IF T = S THEN S ELSE Closure(d, T)

\* The roles reachable from role over one or more parents edges.
Ancestors(d, role) == Closure(d, d[buckets.parents][role])

\* No role of the closure of S lies on a cycle of parents edges.
AcyclicFrom(d, S) == \A r \in Closure(d, S) : r \notin Ancestors(d, r)

Acyclic(d) == AcyclicFrom(d, Roles)

Granted(d, resource, S) ==
    UNION {d[allowsBucket(resource)][r] : r \in Closure(d, S)}

Allowed(d, userId, resource, P) ==
    /\ d[buckets.users][userId] # {}
    /\ LET G == Granted(d, resource, d[buckets.users][userId])
       IN  "*" \in G \/ P \subseteq G

Returns(c, result) == c.pc = "done" /\ c.result = result

\* Every permission set isAllowed can be asked, as a string or an array.
AllAsked ==
    {Str(p) : p \in Perms \cup {"post"}}
        \cup {Arr(S) : S \in SUBSET (Perms \cup {"post"})}

(***************************************************************************)
(* SpecLinear: a permission check in flight while grants, revokes,         *)
(* assignments and parents changes complete, each in one step, between its *)
(* reads.  lin follows what the reference answers for the check's          *)
(* arguments in every store from the check's first read on.                *)
(***************************************************************************)
LinCall ==
    \E userId \in LinMenu.users, permissions \in LinMenu.asked :
        /\ chk.pc = "idle"
        /\ chk' = isAllowed(db, userId, "blogs", permissions)
        /\ reads' = {buckets.users}
        /\ lin' = LET a == Allowed(db, userId, "blogs", permissions.vals)
                  IN  [any |-> a, all |-> a, mutated |-> FALSE]
        /\ UNCHANGED <<db, nops, cl, ex, gr, rv, mw, rr, removed>>

LinReturn ==
    /\ chk.pc = "done"
    /\ chk' = Idle
    /\ reads' = {}
    /\ lin' = NoHistory
    /\ UNCHANGED <<db, nops, cl, ex, gr, rv, mw, rr, removed>>

\* A mutating call completing, between two reads of the check if one is in
\* flight.
LinMutate(d) ==
    /\ nops < MaxLinOps
    /\ db' = d
    /\ nops' = nops + 1
    /\ lin' = IF chk.pc = "idle" THEN lin
              ELSE LET a == Allowed(d, chk.userId, chk.resource, chk.asked)
                   IN  [any |-> lin.any \/ a, all |-> lin.all /\ a, mutated |-> TRUE]
    /\ UNCHANGED <<chk, reads, cl, ex, gr, rv, mw, rr, removed>>

LinAddUserRoles ==
    \E userId \in LinMenu.users, roles \in LinMenu.roleArgs :
        LinMutate(addUserRoles(db, userId, roles))

LinRemoveUserRoles ==
    \E userId \in LinMenu.users, roles \in LinMenu.roleArgs :
        LinMutate(removeUserRoles(db, userId, roles))

LinAddRoleParents ==
    \E role \in LinMenu.children, parents \in LinMenu.parentArgs :
        LinMutate(addRoleParents(db, role, parents))

LinRemoveRoleParents ==
    \E role \in LinMenu.children, parents \in LinMenu.parentArgs :
        LinMutate(removeRoleParents(db, role, parents))

LinAllow ==
    \E role \in LinMenu.grantees, resources \in LinMenu.resourceArgs,
       permissions \in LinMenu.permArgs :
        LinMutate(allow(db, Str(role), resources, permissions))

LinRemoveAllow ==
    \E role \in LinMenu.grantees, resources \in LinMenu.resourceArgs,
       permissions \in LinMenu.permArgs :
        LinMutate(removeAllow(db, role, resources, permissions))

NextLinear ==
    \/ LinAddUserRoles
    \/ LinRemoveUserRoles
    \/ LinAddRoleParents
    \/ LinRemoveRoleParents
    \/ LinAllow
    \/ LinRemoveAllow
    \/ LinCall
    \/ UnionAllows
    \/ UnionParents
    \/ LinReturn

SpecLinear == Init /\ [][NextLinear]_vars

(***************************************************************************)
(* SpecRemoved: the mutating calls one after the other, each run to        *)
(* completion, and the permission check between them.  removed holds the   *)
(* roles removeRole was called for and that have not been granted a        *)
(* permission or given a parent since.                                     *)
(***************************************************************************)
RmMutate(d, gone) ==
    /\ CanMutate(RemovedMenu)
    /\ db' = d
    /\ nops' = nops + 1
    /\ removed' = gone
    /\ UNCHANGED <<chk, reads, cl, ex, gr, rv, mw, rr, lin>>

RmAddUserRoles ==
    \E userId \in RemovedMenu.users, roles \in RemovedMenu.roleArgs :
        RmMutate(addUserRoles(db, userId, roles), removed)

RmRemoveUserRoles ==
    \E userId \in RemovedMenu.users, roles \in RemovedMenu.roleArgs :
        RmMutate(removeUserRoles(db, userId, roles), removed)

RmAddRoleParents ==
    \E role \in RemovedMenu.roles, parents \in RemovedMenu.edgeArgs :
        RmMutate(addRoleParents(db, role, parents), removed \ {role})

RmRemoveRoleParents ==
    \E role \in RemovedMenu.roles, parents \in RemovedMenu.parentArgs :
        RmMutate(removeRoleParents(db, role, parents), removed)

RmRemoveRole ==
    \E role \in RemovedMenu.roles :
        RmMutate(removeRole(db, role), removed \cup {role})

RmRemoveResource ==
    \E resource \in RemovedMenu.resources :
        RmMutate(removeResource(db, resource), removed)

RmAllow ==
    \E roles \in RemovedMenu.roleArgs, resources \in RemovedMenu.resourceArgs,
       permissions \in RemovedMenu.permArgs :
        RmMutate(allow(db, roles, resources, permissions),
                 removed \ makeArray(roles).vals)

RmRemoveAllow ==
    \E role \in RemovedMenu.roles, resources \in RemovedMenu.resourceArgs,
       permissions \in RemovedMenu.revokeArgs :
        RmMutate(removeAllow(db, role, resources, permissions), removed)

NextRemoved ==
    \/ RmAddUserRoles
    \/ RmRemoveUserRoles
    \/ RmAddRoleParents
    \/ RmRemoveRoleParents
    \/ RmRemoveRole
    \/ RmRemoveResource
    \/ RmAllow
    \/ RmRemoveAllow
    \/ CallIsAllowed
    \/ UnionAllows
    \/ UnionParents
    \/ Return

SpecRemoved == Init /\ [][NextRemoved]_vars

(***************************************************************************)
(* C1.  On an acyclic hierarchy isAllowed(u, res, P) returns, and returns  *)
(* true exactly when u has a role and the grants on res of the roles in    *)
(* the closure of u's roles contain "*" or all of P; the check the model   *)
(* has just run has returned that answer too.                              *)
(***************************************************************************)
C1_IsAllowedIsClosureGrant ==
    Acyclic(db) =>
        /\ chk.pc = "idle" =>
              \A u \in Users, res \in Resources, P \in AllAsked :
                 Returns(isAllowedRun(db, u, res, P), Allowed(db, u, res, P.vals))
        /\ chk.pc = "done" =>
              chk.result = Allowed(db, chk.userId, chk.resource, chk.asked)

\* A check of {get, put} has returned true where the user's own roles grant
\* get but not put, nobody holds "*", and put comes from an ancestor.
C1_Witness ==
    /\ Acyclic(db)
    /\ Returns(chk, TRUE)
    /\ chk.asked = {"get", "put"}
    /\ LET own == UNION {db[allowsBucket(chk.resource)][r] :
                            r \in db[buckets.users][chk.userId]}
       IN  /\ "get" \in own
           /\ "put" \notin own
           /\ "*" \notin Granted(db, chk.resource, db[buckets.users][chk.userId])

(***************************************************************************)
(* C2.  Inheritance: whenever a user holds role A and an ancestor B of A,  *)
(* any number of parents edges up, is granted p on res, isAllowed(u, res,  *)
(* p) returns true, whatever else has been granted or assigned (cycles     *)
(* included).                                                              *)
(***************************************************************************)
C2_Inheritance ==
    \A u \in Users, A \in Roles, res \in Resources, p \in Perms :
        (/\ A \in db[buckets.users][u]
         /\ \E B \in Ancestors(db, A) : p \in db[allowsBucket(res)][B])
        => /\ chk.pc = "idle" => Returns(isAllowedRun(db, u, res, Str(p)), TRUE)
           /\ (chk.pc = "done" /\ chk.userId = u /\ chk.resource = res
                  /\ chk.asked = {p}) => chk.result

\* A check has returned true for a user of admin, where the only grant is
\* two parents edges up: admin -> user -> guest.
C2_Witness ==
    /\ Returns(chk, TRUE)
    /\ chk.asked = {"get"}
    /\ db[buckets.users][chk.userId] = {"admin"}
    /\ db[buckets.parents]["admin"] = {"user"}
    /\ db[buckets.parents]["user"] = {"guest"}
    /\ db[allowsBucket(chk.resource)]["admin"] = {}
    /\ db[allowsBucket(chk.resource)]["user"] = {}
    /\ "get" \in db[allowsBucket(chk.resource)]["guest"]

(***************************************************************************)
(* C3.  Wildcard: when a role in the closure of the user's roles holds "*" *)
(* on res, isAllowed(u, res, P) returns true for every P, also for a       *)
(* permission granted to nobody.                                           *)
(***************************************************************************)
C3_Wildcard ==
    \A u \in Users, res \in Resources :
        "*" \in Granted(db, res, db[buckets.users][u])
        => /\ chk.pc = "idle" =>
                 \A P \in AllAsked : Returns(isAllowedRun(db, u, res, P), TRUE)
           /\ (chk.pc = "done" /\ chk.userId = u /\ chk.resource = res)
                  => chk.result

\* A check of "post", which nobody was granted, has returned true through a
\* "*" held by a parent of the user's role.
C3_Witness ==
    /\ Returns(chk, TRUE)
    /\ chk.asked = {"post"}
    /\ \E A \in db[buckets.users][chk.userId] :
          /\ db[allowsBucket(chk.resource)][A] = {}
          /\ \E B \in db[buckets.parents][A] :
                "*" \in db[allowsBucket(chk.resource)][B]
    /\ \A r \in Roles : "post" \notin db[allowsBucket(chk.resource)][r]

(***************************************************************************)
(* C4, as claimed, on acyclic hierarchies: after removeAllow(parent, res,  *)
(* p), a user whose closure contains parent and in which no other role     *)
(* grants p or "*" on res is denied p.                                     *)
(***************************************************************************)
C4_AsClaimed ==
    (chk.pc = "idle" /\ Acyclic(db)) =>
        \A parent \in Roles, res \in Resources, p \in Perms, u \in Users :
            LET d2 == removeAllow(db, parent, Str(res), Str(p))
                C == Closure(db, db[buckets.users][u])
            IN  (/\ parent \in C
                 /\ p \in db[allowsBucket(res)][parent]
                 /\ \A r \in C \ {parent} :
                       db[allowsBucket(res)][r] \cap {p, "*"} = {})
                => Returns(isAllowedRun(d2, u, res, Str(p)), FALSE)

(***************************************************************************)
(* C4, amended.  After removeAllow(parent, res, p), a user whose closure   *)
(* contains parent, in which no other role grants p or "*" on res and in   *)
(* which parent does not hold "*" next to p, is not allowed p: isAllowed   *)
(* returns false, or, with a cycle reachable from the user's roles, never  *)
(* returns.                                                                *)
(***************************************************************************)
C4_RevokeReachesDescendants ==
    chk.pc = "idle" =>
        \A parent \in Roles, res \in Resources, p \in Perms, u \in Users :
            LET d2 == removeAllow(db, parent, Str(res), Str(p))
                S == db[buckets.users][u]
                C == Closure(db, S)
                c == isAllowedRun(d2, u, res, Str(p))
            IN  (/\ parent \in C
                 /\ p \in db[allowsBucket(res)][parent]
                 /\ \A r \in C \ {parent} :
                       db[allowsBucket(res)][r] \cap {p, "*"} = {}
                 /\ "*" \in db[allowsBucket(res)][parent] => p = "*")
                => IF AcyclicFrom(db, S) THEN Returns(c, FALSE)
                   ELSE c.pc = "diverged"

\* A user who holds only a child of the granted role is allowed get, and
\* is denied once removeAllow has taken get from the parent.
C4_Witness ==
    /\ chk.pc = "idle"
    /\ nops < MaxCheckOps
    /\ \E u \in Users, A \in Roles, B \in Roles :
          /\ db[buckets.users][u] = {A}
          /\ A # B
          /\ db[buckets.parents][A] = {B}
          /\ db[allowsBucket("blogs")][A] = {}
          /\ db[allowsBucket("blogs")][B] = {"get"}
          /\ Returns(isAllowedRun(db, u, "blogs", Str("get")), TRUE)
          /\ Returns(isAllowedRun(removeAllow(db, B, Str("blogs"), Str("get")),
                                  u, "blogs", Str("get")), FALSE)

(***************************************************************************)
(* C5.  In every state reached by completed calls, removeRole(r) leaves r  *)
(* out of meta.roles, every allows[res][r] empty, and resources[r],        *)
(* parents[r] and roles[r] empty.                                          *)
(***************************************************************************)
RoleGone(d, r) ==
    /\ r \notin d[buckets.meta]["roles"]
    /\ \A res \in Resources : d[allowsBucket(res)][r] = {}
    /\ d[buckets.resources][r] = {}
    /\ d[buckets.parents][r] = {}
    /\ d[buckets.roles][r] = {}

C5_RemoveRoleClears == \A r \in Roles : RoleGone(removeRole(db, r), r)

\* A role with grants on both resources, a parent and a user, which
\* removeRole clears.
C5_Witness ==
    \E r \in Roles :
        /\ r \in db[buckets.meta]["roles"]
        /\ \A res \in Resources : db[allowsBucket(res)][r] # {}
        /\ db[buckets.resources][r] = Resources
        /\ db[buckets.parents][r] # {}
        /\ db[buckets.roles][r] # {}
        /\ RoleGone(removeRole(db, r), r)

(***************************************************************************)
(* C6.  removeRole(r) changes neither the users bucket nor meta.users: a   *)
(* user who held r still holds it (userRoles, hasRole), while roleUsers(r) *)
(* is empty.                                                               *)
(***************************************************************************)
C6_RemoveRoleKeepsUsers ==
    \A r \in Roles :
        LET d2 == removeRole(db, r)
        IN  /\ d2[buckets.users] = db[buckets.users]
            /\ d2[buckets.meta]["users"] = db[buckets.meta]["users"]
            /\ \A u \in Users :
                  /\ userRoles(d2, u) = userRoles(db, u)
                  /\ hasRole(db, u, r) => hasRole(d2, u, r)
            /\ roleUsers(d2, r) = {}

\* The state removeRole leaves behind: a user still lists a role that no
\* longer lists the user and is no longer in meta.roles.
C6_Witness ==
    \E r \in Roles, u \in Users :
        /\ hasRole(db, u, r)
        /\ u \in db[buckets.meta]["users"]
        /\ roleUsers(db, r) = {}
        /\ r \notin db[buckets.meta]["roles"]
        /\ db = removeRole(db, r)

(***************************************************************************)
(* C7.  Round trip: allow(r, res, P) then removeAllow(r, res, P), P not    *)
(* empty, leaves allows[res][r] as it was before the grant minus P; when r *)
(* had nothing on res, it has nothing afterwards and res is not in         *)
(* resources[r].                                                           *)
(***************************************************************************)
\* The non-empty permission arguments of the round trip.
RoundTripArgs == PermArgs \cup {Str("*")}

C7_GrantRevokeRoundTrip ==
    \A r \in Roles, res \in Resources, P \in RoundTripArgs :
        LET d2 == removeAllow(allow(db, Str(r), Str(res), P), r, Str(res), P)
            before == db[allowsBucket(res)][r]
        IN  /\ d2[allowsBucket(res)][r] = before \ P.vals
            /\ before = {} =>
                  /\ d2[allowsBucket(res)][r] = {}
                  /\ res \notin d2[buckets.resources][r]

\* A role that holds get and put on blogs and nothing on docs: the round
\* trip of put leaves get on blogs, the round trip of get on docs leaves
\* no trace of docs.
C7_Witness ==
    \E r \in Roles :
        /\ db[allowsBucket("blogs")][r] = {"get", "put"}
        /\ db[allowsBucket("docs")][r] = {}
        /\ LET d1 == allow(db, Str(r), Str("blogs"), Str("put"))
               d2 == removeAllow(d1, r, Str("blogs"), Str("put"))
           IN  d2[allowsBucket("blogs")][r] = {"get"}
        /\ LET d1 == allow(db, Str(r), Str("docs"), Str("get"))
               d2 == removeAllow(d1, r, Str("docs"), Str("get"))
           IN  /\ "docs" \in d1[buckets.resources][r]
               /\ d2[allowsBucket("docs")][r] = {}
               /\ "docs" \notin d2[buckets.resources][r]

(***************************************************************************)
(* C8.  allow is idempotent: in every state and for all arguments, allow   *)
(* run twice leaves the store that allow run once leaves.                  *)
(***************************************************************************)
\* The menu's permission arguments and the wildcard.
AllPermArgs == PermArgs \cup {Str("*")}

C8_AllowIdempotent ==
    \A roles \in {Str("admin"), Arr({"user", "guest"})},
       resources \in ResourceArgs, permissions \in AllPermArgs :
        LET d1 == allow(db, roles, resources, permissions)
        IN  allow(d1, roles, resources, permissions) = d1

\* A store in which a grant over two roles and two resources has been made
\* (making it again changes nothing) and where it added to what was there.
C8_Witness ==
    /\ nops > 0
    /\ LET roles == Arr({"user", "guest"})
           permissions == Arr({"get", "put"})
       IN  /\ allow(db, roles, Arr(Resources), permissions) = db
           /\ \A role \in roles.vals, res \in Resources :
                 db[allowsBucket(res)][role] = permissions.vals
           /\ db[allowsBucket("blogs")]["admin"] = {"get"}

(***************************************************************************)
(* C9.  After removeAllow(role, resources, P), for every resource of the   *)
(* call: if allows[res][role] is empty, res is not in resources[role]; if  *)
(* it still holds a permission, res is in resources[role] exactly when it  *)
(* was before.                                                             *)
(***************************************************************************)
C9_RevokeKeepsIndex ==
    \A role \in Roles, resources \in {Str("docs"), Arr(Resources)},
       P \in PermArgs \cup {Undefined} :
        LET d2 == removeAllow(db, role, resources, P)
        IN  \A res \in resources.vals :
               IF d2[allowsBucket(res)][role] = {}
               THEN res \notin d2[buckets.resources][role]
               ELSE res \in d2[buckets.resources][role]
                       <=> res \in db[buckets.resources][role]

\* One call over both resources that empties a role's set on docs (docs
\* leaves the index) and leaves put on blogs (blogs stays in the index).
C9_Witness ==
    \E role \in Roles :
        /\ db[allowsBucket("docs")][role] = {"get"}
        /\ db[allowsBucket("blogs")][role] = {"get", "put"}
        /\ db[buckets.resources][role] = Resources
        /\ LET d2 == removeAllow(db, role, Arr(Resources), Str("get"))
           IN  /\ d2[allowsBucket("docs")][role] = {}
               /\ d2[allowsBucket("blogs")][role] = {"put"}
               /\ d2[buckets.resources][role] = {"blogs"}

(***************************************************************************)
(* C10.  A check for a user without roles has returned false as soon as    *)
(* the users bucket has answered: it is never found waiting for, or past,  *)
(* a read of an allows bucket or of the parents bucket.                    *)
(***************************************************************************)
C10_NoRolesNoLookup ==
    (chk.pc # "idle" /\ db[buckets.users][chk.userId] = {})
    => /\ Returns(chk, FALSE)
       /\ reads = {buckets.users}

\* Such a check has returned, in a store where a grant on the resource
\* exists and another user holds the granted role.
C10_Witness ==
    /\ Returns(chk, FALSE)
    /\ db[buckets.users][chk.userId] = {}
    /\ reads = {buckets.users}
    /\ \E u \in Users, r \in Roles :
          /\ r \in db[buckets.users][u]
          /\ chk.asked \subseteq db[allowsBucket(chk.resource)][r]

(***************************************************************************)
(* C11.  In every state reached by completed calls, removeResource(res)    *)
(* leaves allows[res][role] empty and res out of resources[role] for every *)
(* role, and leaves the allows entries of every other resource and the     *)
(* membership of every other resource in every resources[role] as they     *)
(* were.                                                                   *)
(***************************************************************************)
C11_RemoveResourceClears ==
    \A res \in Resources :
        LET d2 == removeResource(db, res)
        IN  /\ \A role \in Roles :
                  /\ d2[allowsBucket(res)][role] = {}
                  /\ res \notin d2[buckets.resources][role]
            /\ \A other \in Resources \ {res} :
                  /\ d2[allowsBucket(other)] = db[allowsBucket(other)]
                  /\ \A role \in Roles :
                        other \in d2[buckets.resources][role]
                            <=> other \in db[buckets.resources][role]

\* Two roles hold grants on both resources; removeResource("blogs") takes
\* blogs from both and leaves docs with both.
C11_Witness ==
    \E r1 \in Roles, r2 \in Roles :
        /\ r1 # r2
        /\ \A r \in {r1, r2} :
              /\ db[allowsBucket("blogs")][r] # {}
              /\ db[allowsBucket("docs")][r] # {}
              /\ db[buckets.resources][r] = Resources
        /\ LET d2 == removeResource(db, "blogs")
           IN  \A r \in {r1, r2} :
                  /\ d2[allowsBucket("blogs")][r] = {}
                  /\ d2[allowsBucket("docs")][r] = db[allowsBucket("docs")][r]
                  /\ d2[buckets.resources][r] = {"docs"}

(***************************************************************************)
(* C14.  removeRoleParents(role, parents) with parents given (a string or  *)
(* an array) leaves parents[role] minus those parents; with parents        *)
(* omitted it leaves parents[role] empty; the parents of every other role  *)
(* are as they were.                                                       *)
(***************************************************************************)
\* Every parents argument: a role, a list of roles, or none.
AllParentArgs ==
    {Str(r) : r \in Roles} \cup {Arr(S) : S \in SUBSET Roles} \cup {Undefined}

C14_RemoveRoleParents ==
    \A role \in Roles, parents \in AllParentArgs :
        LET d2 == removeRoleParents(db, role, parents)
        IN  /\ d2[buckets.parents][role] =
                  IF parents = Undefined THEN {}
                  ELSE db[buckets.parents][role] \ parents.vals
            /\ \A other \in Roles \ {role} :
                  d2[buckets.parents][other] = db[buckets.parents][other]

\* A role with two parents, and another role with a parent: removing one
\* parent keeps the other, removing with no parents given clears both.
C14_Witness ==
    \E role \in Roles, p1 \in Roles, p2 \in Roles, other \in Roles :
        /\ p1 # p2
        /\ other # role
        /\ db[buckets.parents][role] = {p1, p2}
        /\ db[buckets.parents][other] # {}
        /\ removeRoleParents(db, role, Str(p1))[buckets.parents][role] = {p2}
        /\ removeRoleParents(db, role, Undefined)[buckets.parents][role] = {}
        /\ removeRoleParents(db, role, Undefined)[buckets.parents][other]
              = db[buckets.parents][other]

(***************************************************************************)
(* C12.  User/role symmetry: in every state reached by completed           *)
(* addUserRoles and removeUserRoles calls (of a role or a list of roles),  *)
(* r is in users[u] exactly when u is in roles[r], and every user who      *)
(* holds a role is in meta.users.                                          *)
(***************************************************************************)
C12_UserRoleSymmetry ==
    /\ \A u \in Users, r \in Roles :
          r \in db[buckets.users][u] <=> u \in db[buckets.roles][r]
    /\ \A u \in Users :
          db[buckets.users][u] # {} => u \in db[buckets.meta]["users"]

\* One user has lost every role that was assigned (and stays in
\* meta.users), the other holds two roles, one of them alone.
C12_Witness ==
    /\ db[buckets.users]["u1"] = {}
    /\ "u1" \in db[buckets.meta]["users"]
    /\ db[buckets.users]["u2"] = {"user", "guest"}
    /\ db[buckets.roles]["user"] = {"u2"}
    /\ db[buckets.roles]["guest"] = {"u2"}
    /\ db[buckets.roles]["admin"] = {}
    /\ nops >= 3

(***************************************************************************)
(* C18.  On an acyclic hierarchy the role closure of a non-empty start set *)
(* S returns, and what it returns lists exactly the roles reachable from S *)
(* over zero or more parents edges, each once: for every S on every        *)
(* acyclic store, and for the closure call the model has just run, which   *)
(* on an acyclic hierarchy never nests as deep as there are roles.         *)
(***************************************************************************)
NoRepeat(a) == Len(a) = Cardinality(Range(a))

IsClosureOf(d, a, S) == Range(a) = Closure(d, S) /\ NoRepeat(a)

C18_AllRolesIsClosure ==
    /\ (cl.pc = "idle" /\ Acyclic(db)) =>
          \A S \in (SUBSET Roles) \ {{}} :
             LET c == runAllRoles(db, _rolesResources(Arr(S)))
             IN  c.pc = "done" /\ IsClosureOf(db, c.result, S)
    /\ (cl.pc # "idle" /\ cl.start # <<>> /\ AcyclicFrom(db, Range(cl.start))) =>
          /\ Len(cl.stack) < Cardinality(Roles)
          /\ cl.pc = "done" => IsClosureOf(db, cl.result, Range(cl.start))

\* A closure of admin has returned the three roles where guest is reached
\* along two paths: admin -> guest and admin -> user -> guest.
C18_Witness ==
    /\ cl.pc = "done"
    /\ cl.start = <<"admin">>
    /\ db[buckets.parents]["admin"] = {"user", "guest"}
    /\ db[buckets.parents]["user"] = {"guest"}
    /\ db[buckets.parents]["guest"] = {}
    /\ Range(cl.result) = Roles
    /\ Len(cl.result) = 3

(***************************************************************************)
(* C19.  When a role on a cycle of parents edges is reachable from the     *)
(* start set, the role closure never returns: a closure call in flight,    *)
(* for optimizedAllowedPermissions or for whatResources, is always waiting *)
(* for the parents of a non-empty list of roles, and run against the       *)
(* store the closure and optimizedAllowedPermissions do not end.           *)
(***************************************************************************)
C19_CyclicClosureNeverReturns ==
    /\ (cl.pc # "idle" /\ ~AcyclicFrom(db, Range(cl.start))) =>
          /\ cl.pc = "rolesParents"
          /\ Len(cl.roleNames) > 0
    /\ cl.pc = "idle" =>
          /\ \A S \in (SUBSET Roles) \ {{}} :
                ~AcyclicFrom(db, S) =>
                    runAllRoles(db, _rolesResources(Arr(S))).pc = "diverged"
          /\ \A u \in Users :
                ~AcyclicFrom(db, db[buckets.users][u]) =>
                    optimizedAllowedPermissions(db, u, Arr(Resources)).pc = "diverged"

\* A closure of admin, which is not on the cycle user -> guest -> user but
\* reaches it, has nested as deep as it is followed and is still asking for
\* parents.
C19_Witness ==
    /\ cl.pc = "rolesParents"
    /\ cl.start = <<"admin">>
    /\ Len(cl.stack) = MaxDepth
    /\ db[buckets.parents]["admin"] = {"user"}
    /\ db[buckets.parents]["user"] = {"guest"}
    /\ db[buckets.parents]["guest"] = {"user"}

(***************************************************************************)
(* C15.  On every acyclic store, for every user and resource list,         *)
(* allowedPermissions without backend unions and                           *)
(* optimizedAllowedPermissions both return the mapping of each requested   *)
(* resource to the union of allows[res][r] over the closure of the user's  *)
(* roles; for a user without roles each resource maps to the empty set.    *)
(***************************************************************************)
\* The resource lists asked for: a resource, both, or none.
ResourceLists == {Str(res) : res \in Resources} \cup {Arr(Resources), Arr({})}

RECURSIVE AllowAll(_, _)
AllowAll(d, items) ==
    IF items = <<>> THEN d
    ELSE AllowAll(allow(d, Head(items).roles, Head(items).resources,
                        Head(items).permissions), Tail(items))

C17_CompactFormInSequence ==
    /\ ex.begun = [i \in 1..Len(ex.begun) |-> i]
    /\ ex.ended = [i \in 1..Len(ex.ended) |-> i]
    /\ Len(ex.begun) <= Len(ex.demuxed)
    /\ Len(ex.ended) = (IF ex.pc \in {"batch", "rejected"}
                        THEN Len(ex.begun) - 1 ELSE Len(ex.begun))
    /\ ex.pc # "idle" => db = AllowAll(ex.base, SubSeq(ex.demuxed, 1, Len(ex.ended)))
    /\ ex.pc = "resolved" => Len(ex.ended) = Len(ex.demuxed) /\ ex.error = ""
    /\ ex.pc = "rejected" => ex.error = "backend"
    /\ ex.error # "" => ex.pc = "rejected"

\* The call with three items has been rejected on its second batch: the
\* first grant is in the store, the second and the third are not, and the
\* third was never begun.
C17_Witness ==
    /\ ex.pc = "rejected"
    /\ Len(ex.demuxed) = 3
    /\ ex.begun = <<1, 2>>
    /\ ex.ended = <<1>>
    /\ "get" \in db[allowsBucket("blogs")]["admin"]
    /\ "put" \notin db[allowsBucket("blogs")]["admin"]
    /\ "docs" \notin db[buckets.resources]["admin"]
    /\ db[allowsBucket("docs")]["user"] = {}

(***************************************************************************)
(* C16.  A revoke is not atomic with a grant made while it runs.  When a   *)
(* removeAllow and an allow have both completed and a resource of both     *)
(* calls has a non-empty allows[res][role] but is not in resources[role],  *)
(* the grant committed between the two batches of the revoke, after the    *)
(* revoke had read that allows set empty; and such a state is reached.     *)
(* The reads and the second batch, taken one after the other on a store    *)
(* nobody else writes, are the second batch of removePermissions.          *)
(***************************************************************************)
IndexBroken(d, role, res) ==
    d[allowsBucket(res)][role] # {} /\ res \notin d[buckets.resources][role]

RECURSIVE ReadAll(_, _)
ReadAll(d, c) ==
    IF c.pending = {} THEN c
    ELSE ReadAll(d, revokeRead(d, c, CHOOSE res \in c.pending : TRUE))

C16_RevokeGrantRace ==
    /\ (rv.pc = "done" /\ gr.pc = "done") =>
          \A res \in rv.resources.vals \cap makeArray(gr.resources).vals :
             IndexBroken(db, rv.role, res) =>
                 /\ gr.at \in {"reading", "phase2"}
                 /\ res \in rv.empties
    /\ rv.pc = "reading" /\ rv.pending = rv.resources.vals =>
          revokeEnd2(db, ReadAll(db, rv)) = removePermissions2(db, rv.role, rv.resources)

\* Both calls have completed, the grant committed after the revoke had
\* read the set empty and before its second batch: admin holds a
\* permission on blogs and blogs is not in resources[admin].
C16_Witness ==
    /\ rv.pc = "done"
    /\ gr.pc = "done"
    /\ gr.at = "phase2"
    /\ "blogs" \in rv.empties
    /\ db[allowsBucket("blogs")]["admin"] = gr.permissions.vals
    /\ "blogs" \notin db[buckets.resources]["admin"]

(***************************************************************************)
(* C13.  What allow(roles, resources, P) changes: every role joins         *)
(* meta.roles, P joins allows[res][role] for every pair of the cross       *)
(* product, every resource joins resources[role] for every role; users,    *)
(* roles, parents, meta.users and the entries of other roles and resources *)
(* stay as they were.  It is one batch, ended by one backend.end.          *)
(***************************************************************************)
AllowEffect(d, d2, roles, resources, P) ==
    /\ d2[buckets.meta]["roles"] = d[buckets.meta]["roles"] \cup roles
    /\ \A res \in Resources, role \in Roles :
          d2[allowsBucket(res)][role] =
              d[allowsBucket(res)][role]
                 \cup (IF res \in resources /\ role \in roles THEN P ELSE {})
    /\ \A role \in Roles :
          d2[buckets.resources][role] =
              d[buckets.resources][role] \cup (IF role \in roles THEN resources ELSE {})
    /\ d2[buckets.users] = d[buckets.users]
    /\ d2[buckets.roles] = d[buckets.roles]
    /\ d2[buckets.parents] = d[buckets.parents]
    /\ d2[buckets.meta]["users"] = d[buckets.meta]["users"]

AllowFrame ==
    Quiet =>
        \A roles \in BatchRoleArgs, resources \in ResourceArgs,
           P \in PermArgs \cup {Arr({})} :
            LET d2 == allow(db, roles, resources, P)
            IN  /\ AllowEffect(db, d2, roles.vals, makeArray(resources).vals, P.vals)
                /\ d2 = backend_end(db, allowTransaction(roles, resources, P))

\* Every set of d is within the set of d2.
Within(d, d2) ==
    \A b \in AllBuckets : \A k \in KeysOf(b) : d[b][k] \subseteq d2[b][k]

\* The store the allow call in flight leaves when its batch has ended.
GrantFinal == allow(gr.base, gr.roles, gr.resources, gr.permissions)

(***************************************************************************)
(* C13, as claimed: the frame, and at no moment does the store hold only   *)
(* part of the additions of an allow call in flight.                       *)
(***************************************************************************)
C13_AsClaimed ==
    /\ AllowFrame
    /\ gr.pc # "idle" => db \in {gr.base, GrantFinal}

(***************************************************************************)
(* C13, amended.  The frame; the store has exactly the additions when the  *)
(* batch has ended; while the backend applies the batch the store lies     *)
(* between the store before and the store after, so that a reader may      *)
(* find some of the additions without the others, but nothing else.        *)
(***************************************************************************)
C13_AllowFrame ==
    /\ AllowFrame
    /\ gr.pc # "idle" =>
          /\ Within(gr.base, db)
          /\ Within(db, GrantFinal)
          /\ backend_end(db, gr.txn) = GrantFinal
          /\ gr.pc = "queued" => db = gr.base
          /\ gr.pc = "done" => db = GrantFinal

\* An allow for two roles on two resources is being applied: the store has
\* the grant of one role and not yet that of the other, beside a user and
\* a parents edge the call leaves alone.
C13_Witness ==
    /\ gr.pc = "applying"
    /\ gr.roles = Arr({"user", "guest"})
    /\ gr.resources = Arr(Resources)
    /\ db[buckets.users]["u1"] = {"admin"}
    /\ db[buckets.parents]["admin"] = {"user"}
    /\ \E r1 \in {"user", "guest"}, r2 \in {"user", "guest"} :
          /\ db[allowsBucket("blogs")][r1] = gr.permissions.vals
          /\ db[allowsBucket("blogs")][r2] = {}
    /\ db # gr.base
    /\ db # GrantFinal

(***************************************************************************)
(* C20, as claimed.  A request without a resolvable principal gets next    *)
(* called once, with a 401 error, and no allow check.  A request with a    *)
(* principal gets the allow check and, once the check has settled, next    *)
(* called exactly once: with no error when it answered true, with a 403    *)
(* error when it answered false, with a generic error when the backend     *)
(* failed.                                                                 *)
(***************************************************************************)
C20_AsClaimed ==
    /\ mw.nextCalls <= 1
    /\ mw.pc = "finished" =>
          mw.nextCalls = 1 /\ mw.nextArg = "401" /\ ~mw.checked
    /\ mw.pc = "checking" => mw.checked /\ mw.nextCalls = 0
    /\ mw.pc = "settled" =>
          /\ mw.checked
          /\ mw.nextCalls = 1
          /\ mw.nextArg = (IF mw.outcome = "true" THEN "none"
                           ELSE IF mw.outcome = "false" THEN "403"
                           ELSE "error")

\* The check of a request of u1, who may get blogs, has answered true and
\* next has not been called.
C20_Witness ==
    /\ mw.pc = "settled"
    /\ mw.userId = "u1"
    /\ mw.outcome = "true"
    /\ mw.checked
    /\ mw.nextCalls = 0
    /\ Allowed(db, "u1", "blogs", {"get"})

(***************************************************************************)
(* C21: whatResources(roles, permissions) returns, each at most once,      *)
(* exactly the resources over which the roles have the given permissions:  *)
(* a resource recorded in resources[r] of some role r of the roles'        *)
(* closure is in the result if and only if areAnyRolesAllowed(roles,       *)
(* resource, permissions) is true, so that a "*" grant counts and all the  *)
(* given permissions must be held.  Stated where no cycle is reachable     *)
(* from the roles, with both calls run on the same store.  The code does   *)
(* otherwise: it lists a resource once for every role of the closure that  *)
(* records it, and keeps it when any one of the given permissions is among *)
(* the granted ones, a "*" grant matching only a "*" that was asked.       *)
(***************************************************************************)
WhatRoleArgs == {Str(r) : r \in Roles} \cup {Arr({"admin", "user"})}

WhatPermArgs == {Str("get"), Str("put"), Arr({"get", "put"})}

Recorded(d, roles0) ==
    UNION {d[buckets.resources][r] : r \in Closure(d, makeArray(roles0).vals)}

AnyRolesAllowedRun(d, roles0, resource, permissions0) ==
    runCheck(d, areAnyRolesAllowed([Idle EXCEPT !.resource = resource],
                                   roles0, permissions0), {})

C21_AsClaimed ==
    chk.pc = "idle" =>
        \A roles0 \in WhatRoleArgs, permissions0 \in WhatPermArgs :
            AcyclicFrom(db, makeArray(roles0).vals) =>
                LET w == whatResources(db, roles0, permissions0)
                IN  /\ w.pc = "done"
                    /\ NoRepeat(w.result)
                    /\ Range(w.result) \subseteq Recorded(db, roles0)
                    /\ \A resource \in Recorded(db, roles0) :
                           resource \in Range(w.result)
                               <=> Returns(AnyRolesAllowedRun(db, roles0, resource,
                                                              permissions0), TRUE)

\* A role granted "*" on blogs is allowed get there, and whatResources for
\* get answers with no resource.
C21_Witness ==
    /\ chk.pc = "idle"
    /\ db[allowsBucket("blogs")]["admin"] = {"*"}
    /\ "blogs" \in db[buckets.resources]["admin"]
    /\ db[buckets.parents]["admin"] = {}
    /\ Returns(AnyRolesAllowedRun(db, Str("admin"), "blogs", Str("get")), TRUE)
    /\ whatResources(db, Str("admin"), Str("get")) = Resolved(<<>>)

(***************************************************************************)
(* C22.  On a hierarchy where a cycle of parents edges is reachable from   *)
(* the user's roles, isAllowed(u, res, P) returns true when the grants of  *)
(* the roles it meets walking upward contain "*" or cover P, and otherwise *)
(* its chain of reads never ends: it never returns false for such a user.  *)
(* The check the model runs step by step returns nothing but true there.   *)
(***************************************************************************)
C22_CyclicCheckNeverDenies ==
    /\ chk.pc = "idle" =>
          \A u \in Users, res \in Resources, P \in AllAsked :
              ~AcyclicFrom(db, db[buckets.users][u]) =>
                  LET c == isAllowedRun(db, u, res, P)
                  IN  IF Allowed(db, u, res, P.vals)
                      THEN Returns(c, TRUE)
                      ELSE c.pc = "diverged"
    /\ (chk.pc = "done" /\ ~AcyclicFrom(db, db[buckets.users][chk.userId])) =>
          /\ chk.result = TRUE
          /\ Allowed(db, chk.userId, chk.resource, chk.asked)

\* u1 holds admin only, admin and user are each other's parent and get is
\* granted to user alone: a check in flight is back at admin after a round
\* of the cycle, with put still to find, while a check of get returns true
\* and a check of put never returns.
C22_Witness ==
    /\ db[buckets.users]["u1"] = {"admin"}
    /\ db[buckets.parents]["admin"] = {"user"}
    /\ db[buckets.parents]["user"] = {"admin"}
    /\ db[allowsBucket("blogs")]["user"] = {"get"}
    /\ db[allowsBucket("blogs")]["admin"] = {}
    /\ chk.pc = "unionAllows"
    /\ chk.roles = {"admin"}
    /\ chk.permissions = {"put"}
    /\ buckets.parents \in reads
    /\ Returns(isAllowedRun(db, "u1", "blogs", Str("get")), TRUE)
    /\ isAllowedRun(db, "u1", "blogs", Str("put")).pc = "diverged"

(***************************************************************************)
(* C23.  Index invariant: in every state reached by allow, removeAllow,    *)
(* removeRole, removeResource, addRoleParents, removeRoleParents,          *)
(* addUserRoles and removeUserRoles, each run to completion, for every     *)
(* role r and resource res a non-empty allows[res][r] has res in           *)
(* resources[r] and r in meta.roles; the permission arguments being        *)
(* non-empty, resources[r] is exactly the set of the resources on which    *)
(* allows[res][r] is non-empty.                                            *)
(***************************************************************************)
C23_IndexInvariant ==
    \A r \in Roles :
        /\ \A res \in Resources :
               db[allowsBucket(res)][r] # {} =>
                   /\ res \in db[buckets.resources][r]
                   /\ r \in db[buckets.meta]["roles"]
        /\ db[buckets.resources][r]
               = {res \in Resources : db[allowsBucket(res)][r] # {}}

\* Three calls have run and left one role with grants on docs and none on
\* blogs, which only a grant on both followed by a removal can do, and
\* another role without grants and out of meta.roles.
C23_Witness ==
    \E r \in Roles, r2 \in Roles :
        /\ nops = MaxOps
        /\ db[allowsBucket("docs")][r] # {}
        /\ db[allowsBucket("blogs")][r] = {}
        /\ db[buckets.resources][r] = {"docs"}
        /\ r \in db[buckets.meta]["roles"]
        /\ r2 \notin db[buckets.meta]["roles"]
        /\ db[buckets.resources][r2] = {}
        /\ db[buckets.roles][r2] # {}

(***************************************************************************)
(* C24.  Role deletion is not atomic with a concurrent grant: when         *)
(* allow(r, res, P) commits between removeRole(r)'s read of resources[r]   *)
(* and removeRole's batch, then after both have completed r is not in      *)
(* meta.roles and resources[r] is empty; for a resource that was not in    *)
(* resources[r] when removeRole read it, allows[res][r] still contains P,  *)
(* a user who holds r passes isAllowed(u, res, P), and neither a later     *)
(* removeRole(r) nor a later removeResource(res) clears the grant; for a   *)
(* resource that was in resources[r] at the read the batch has deleted     *)
(* allows[res][r], the new grant with it.                                  *)
(***************************************************************************)
GrantSurvives(d, r, res, permissions) ==
    LET P == makeArray(permissions).vals
    IN  /\ P \subseteq d[allowsBucket(res)][r]
        /\ r \notin d[buckets.meta]["roles"]
        /\ res \notin d[buckets.resources][r]
        /\ \A u \in Users :
               r \in d[buckets.users][u] =>
                   Returns(isAllowedRun(d, u, res, permissions), TRUE)
        /\ P \subseteq removeRole(d, r)[allowsBucket(res)][r]
        /\ P \subseteq removeResource(d, res)[allowsBucket(res)][r]

GrantedDuringRemoval ==
    /\ gr.pc = "done"
    /\ rr.pc = "done"
    /\ gr.during = "queued"
    /\ rr.role \in makeArray(gr.roles).vals

\* The claim as stated, for every resource of the grant.
C24_AsClaimed ==
    GrantedDuringRemoval =>
        \A res \in makeArray(gr.resources).vals :
            GrantSurvives(db, rr.role, res, gr.permissions)

C24_RoleDeletionRace ==
    GrantedDuringRemoval =>
        /\ rr.role \notin db[buckets.meta]["roles"]
        /\ db[buckets.resources][rr.role] = {}
        /\ \A res \in makeArray(gr.resources).vals :
               IF res \in rr.resources
               THEN db[allowsBucket(res)][rr.role] = {}
               ELSE GrantSurvives(db, rr.role, res, gr.permissions)

\* u1 holds admin, admin was granted on blogs; removeRole(admin) read
\* {blogs}, then a grant on blogs and docs committed, then the batch ended:
\* the grant on docs is there and u1 passes the check on docs, the grant on
\* blogs is gone.
C24_Witness ==
    /\ GrantedDuringRemoval
    /\ rr.resources = {"blogs"}
    /\ makeArray(gr.resources).vals = {"blogs", "docs"}
    /\ db[buckets.users]["u1"] = {"admin"}
    /\ db[allowsBucket("docs")]["admin"] = makeArray(gr.permissions).vals
    /\ db[allowsBucket("blogs")]["admin"] = {}
    /\ Returns(isAllowedRun(db, "u1", "docs", gr.permissions), TRUE)
    /\ ~Returns(isAllowedRun(db, "u1", "blogs", gr.permissions), TRUE)

(***************************************************************************)
(* C25.  A check and the mutations that complete between its reads.  When  *)
(* no mutation has completed between the first read of isAllowed(u, res,   *)
(* P) and its return, the boolean it returns is the reference answer of    *)
(* the store.  When mutations have completed in between, the claim was     *)
(* that the boolean is the reference answer of one of the stores that      *)
(* existed from the first read to the return: never true when the user was *)
(* allowed in none of them, never false when the user was allowed in all.  *)
(***************************************************************************)
C25_AsClaimed ==
    chk.pc = "done" =>
        /\ chk.result => lin.any
        /\ ~chk.result => ~lin.all

C25_UndisturbedCheck ==
    (chk.pc = "done" /\ ~lin.mutated) =>
        /\ chk.result = Allowed(db, chk.userId, chk.resource, chk.asked)
        /\ lin.any = chk.result
        /\ lin.all = chk.result

\* With mutations going on around it, a check of get and put has returned
\* true, get found at admin and put at its parent, no mutation having
\* completed between its reads.
C25_Witness ==
    /\ Returns(chk, TRUE)
    /\ ~lin.mutated
    /\ chk.asked = {"get", "put"}
    /\ db[buckets.users]["u1"] = {"admin"}
    /\ db[buckets.parents]["admin"] = {"user"}
    /\ db[allowsBucket("blogs")]["admin"] = {"get"}
    /\ db[allowsBucket("blogs")]["user"] = {"put"}

(***************************************************************************)
(* C26.  A deleted role confers nothing: from the completion of            *)
(* removeRole(r), the calls running one at a time, until r is granted a    *)
(* permission or given a parent again, the store holds no grant and no     *)
(* parent of r, and for every user u, resource res and non-empty P         *)
(* isAllowed(u, res, P) returns nothing but the reference answer computed  *)
(* with r's grants and r's parents edges removed; it returns whenever no   *)
(* cycle is reachable from u's roles, and where it does not return that    *)
(* answer is false.  A user whose only role is r is denied everything, and *)
(* roles that still list r as a parent get nothing through it.             *)
(***************************************************************************)
Without(d, r) ==
    [b \in DOMAIN d |->
        IF b = buckets.parents \/ b \in {allowsBucket(res) : res \in Resources}
        THEN [d[b] EXCEPT ![r] = {}]
        ELSE d[b]]

NonEmptyAsked == {P \in AllAsked : P.vals # {}}

====
